---- MODULE Spec2Model ----
(***************************************************************************)
(* Authentication and session-integrity subsystem of base-service:        *)
(* the JWT validity cache and blacklist (internal/middleware/jwt_cache.go),*)
(* the token issuer, AuthMiddleware, Logout and the password hasher        *)
(* (internal/middleware/security.go), and the two rate-limit tiers.        *)
(*                                                                         *)
(* Time is a discrete clock `now`.  A handler is split at its store round  *)
(* trips and at its clock reads: each action is one round trip together    *)
(* with the local computation around it, so that requests interleave the   *)
(* way goroutines do.                                                      *)
(***************************************************************************)
EXTENDS Integers, Sequences, FiniteSets, TLC

\* ------------------------------------------------------------------ bounds
MaxTime == 3
MaxAuth == 1
MaxOps == 1
MaxIssue == 1
AccessTokenExp == 2
RefreshTokenExp == 3
MaxPasswords == 4
MaxSalts == 5
MaxLimiters == 2
MaxInflight == 2
MaxRequests == 3
MaxTierMax == 2
MaxChainRequests == 4
Minute == 2

\* --------------------------------------------------------------- constants
StatusOK == 200
StatusBadRequest == 400
StatusUnauthorized == 401
StatusInternalServerError == 500
StatusTooManyRequests == 429

argon2Time == 3
argon2Memory == 65536
argon2Threads == 2
argon2KeyLength == 32
argon2SaltLength == 16
argon2Version == 19

Prefix == "Bearer"
RefreshTokenKeyName == "refreshToken"
jwtValidKeyPrefix == "jwt:valid"
jwtBlacklistKeyPrefix == "jwt:blacklist"

NoErr == "nil"
Users == {1, 2}
Secrets == {"secretA", "secretB"}
AuthSlots == 1..MaxAuth
OpSlots == (MaxAuth + 1)..(MaxAuth + MaxOps)
Slots == AuthSlots \cup OpSlots
Limiters == 1..MaxLimiters
LimitSlots == 1..MaxInflight
ClientIPs == {"10.0.0.1"}

VARIABLES
    now,        \* the wall clock (time.Now)
    cfg,        \* config.MiddlewareConfig.Token secrets and the JWTCache wiring
    issued,     \* tokens handed out by GenerateTokenPair
    redis,      \* the Redis database of the JWT cache: key -> [val, expireAt]
    req,        \* the requests in flight, one goroutine per slot
    loggedOut,  \* history: tokens whose Logout answered "Logged out successfully"
    pw,         \* the password last hashed and the last verification of it
    rlConfig,   \* config.RateLimitConfig
    handlers,   \* the limiter handlers built so far, one per instance and tier
    storage,    \* the Redis database of the rate-limit counters
    lreq,       \* the requests inside a limiter handler, one goroutine per slot
    hist        \* history: the limiter's decisions, in the order it took them

authVars == <<now, cfg, issued, redis, req, loggedOut>>
limiterVars == <<rlConfig, handlers, storage, lreq, hist>>
vars == <<authVars, pw, limiterVars>>

\* ------------------------------------------------------------------ tokens
UserName(userId) == IF userId = 1 THEN "alice" ELSE "bob"

\* jwt.NewWithClaims(HS256, claims).SignedString(secretKey): the token string is
\* determined by its header, its claims and the key that signed it.
generateToken(userId, username, tokenType, secretKey, expiration, t) ==
    [ shape     |-> "jwt",
      alg       |-> "HS256",
      UserId    |-> userId,
      UserName  |-> username,
      TokenType |-> tokenType,
      IssuedAt  |-> t,
      NotBefore |-> t,
      ExpiresAt |-> t + expiration,
      key       |-> secretKey ]

GenerateTokenPair(c, userId, userName, t) ==
    [ AccessToken  |-> generateToken(userId, userName, Prefix,
                                     c.AccessTokenSecret, AccessTokenExp, t),
      RefreshToken |-> generateToken(userId, userName, Prefix,
                                     c.RefreshTokenSecret, RefreshTokenExp, t),
      ExpiresAt    |-> t + AccessTokenExp,
      TokenType    |-> Prefix ]

NoClaims == generateToken(0, "", "", "", 0, 0)

GenerateAcessToken(c, userId, userName, t) ==
    [ AccessToken  |-> generateToken(userId, userName, Prefix,
                                     c.AccessTokenSecret, AccessTokenExp, t),
      RefreshToken |-> NoClaims,
      ExpiresAt    |-> t + AccessTokenExp,
      TokenType    |-> Prefix ]

\* Token strings no issuer of this service produced: signed with a foreign key,
\* signed with a non-HMAC method, and a string that is no JWT at all.
GarbageToken ==
    [generateToken(1, UserName(1), Prefix, "secretA", MaxTime + 2, 0)
        EXCEPT !.shape = "garbage"]

ForeignTokens ==
    { generateToken(1, UserName(1), Prefix, "foreign", MaxTime + 2, 0),
      [generateToken(1, UserName(1), Prefix, "secretA", MaxTime + 2, 0)
            EXCEPT !.alg = "RS256"],
      GarbageToken }

\* jwt.ParseWithClaims: shape, then the key function's method check, then the
\* signature, then the registered claims (exp: now before ExpiresAt), and last the
\* handler's own comparison of the token_type claim.
\* Mutant: the expiry instant itself still counts as valid.
ValidateTokenInclusive(tok, secretToken, expectedType, t) ==
    IF tok.shape # "jwt" THEN [err |-> "ErrMalformedToken", claims |-> NoClaims]
    ELSE IF tok.alg # "HS256" THEN [err |-> "ErrInvalidSignature", claims |-> NoClaims]
    ELSE IF tok.key # secretToken THEN [err |-> "signature is invalid", claims |-> NoClaims]
    ELSE IF ~(t <= tok.ExpiresAt) THEN [err |-> "ErrTokenExpired", claims |-> NoClaims]
    ELSE IF tok.TokenType # expectedType THEN [err |-> "invalid token type", claims |-> NoClaims]
    ELSE [err |-> NoErr, claims |-> tok]

ValidateToken(tok, secretToken, expectedType, t) ==
    IF tok.shape # "jwt" THEN [err |-> "ErrMalformedToken", claims |-> NoClaims]
    ELSE IF tok.alg # "HS256" THEN [err |-> "ErrInvalidSignature", claims |-> NoClaims]
    ELSE IF tok.key # secretToken THEN [err |-> "signature is invalid", claims |-> NoClaims]
    ELSE IF ~(t < tok.ExpiresAt) THEN [err |-> "ErrTokenExpired", claims |-> NoClaims]
    ELSE IF tok.TokenType # expectedType THEN [err |-> "invalid token type", claims |-> NoClaims]
    ELSE [err |-> NoErr, claims |-> tok]

ValidateRefreshToken(c, tok, t) ==
    ValidateToken(tok, c.RefreshTokenSecret, Prefix, t)

\* ------------------------------------------------------------- the JWT cache
\* A *JWTCache: ptr tells a nil pointer from a constructed cache.
NilJWTCache == [ptr |-> "nil", redis |-> "nil", enabled |-> FALSE]

NewJWTCache(redisClient, enabled) ==
    IF redisClient = "nil" \/ ~enabled
    THEN [ptr |-> "set", redis |-> "nil", enabled |-> FALSE]
    ELSE [ptr |-> "set", redis |-> redisClient, enabled |-> enabled]

\* Mutant: the raw token is used as the key, with no digest taken.
hashTokenRaw(token) == token

\* sha256 + hex: a deterministic one-way digest, taken to be collision free.
hashToken(token) == [sha256 |-> token]

ValidKey(token) == <<jwtValidKeyPrefix, hashToken(token)>>
BlacklistKey(token) == <<jwtBlacklistKeyPrefix, hashToken(token)>>

\* Redis commands on a database db at time t.
Live(db, key, t) == key \in DOMAIN db /\ db[key].expireAt > t
RedisSet(db, key, val, ttl, t) ==
    [k \in DOMAIN db \cup {key} |->
        IF k = key THEN [val |-> val, expireAt |-> t + ttl] ELSE db[k]]
RedisDel(db, key) == [k \in DOMAIN db \ {key} |-> db[k]]
Expire(db, t) == [k \in {x \in DOMAIN db : db[x].expireAt > t} |-> db[k]]

\* redis.Set formats an int64 value in decimal and Get(...).Int64() parses it back.
FormatInt(n) == CASE n = 0 -> "0" [] n = 1 -> "1" [] n = 2 -> "2" [] OTHER -> "3"
ParseInt(str) == CASE str = "0" -> 0 [] str = "1" -> 1 [] str = "2" -> 2 [] OTHER -> 3

\* A line written with slog: its text and the status and message it carries.
LogEntry(text, status, detail) == <<text, status, detail>>

\* The guard every JWTCache method opens with: !c.enabled || c.redis == nil.
Active(c) == c.enabled /\ c.redis # "nil"

\* Mutant: a store error is answered "blacklisted" (fail closed).
IsBlacklistedFailClosed(c, db, token, t, ok) ==
    IF ~Active(c) THEN [result |-> FALSE, log |-> {}]
    ELSE IF ~ok
         THEN [result |-> TRUE, log |-> {LogEntry("Failed to check token blacklist", 0, "")}]
         ELSE [result |-> Live(db, BlacklistKey(token), t), log |-> {}]

IsBlacklisted(c, db, token, t, ok) ==
    IF ~Active(c) THEN [result |-> FALSE, log |-> {}]
    ELSE IF ~ok
         THEN [result |-> FALSE, log |-> {LogEntry("Failed to check token blacklist", 0, "")}]
         ELSE IF Live(db, BlacklistKey(token), t)
              THEN [result |-> TRUE, log |-> {LogEntry("Blocked blacklisted token", 0, "")}]
              ELSE [result |-> FALSE, log |-> {}]

\* Mutant: no look at the remaining lifetime; an expired token is written too.
BlacklistTokenAlways(c, db, token, expiresAt, t, ok) ==
    IF ~Active(c) THEN [db |-> db, err |-> NoErr]
    ELSE IF ~ok THEN [db |-> db, err |-> "failed to blacklist token"]
    ELSE [db |-> RedisSet(db, BlacklistKey(token), "1",
                          IF expiresAt - t <= 0 THEN 1 ELSE expiresAt - t, t),
          err |-> NoErr]

\* Mutant: the guard inverted, so an enabled cache blacklists nothing.
BlacklistTokenNoWrite(c, db, token, expiresAt, t, ok) ==
    [db |-> db, err |-> NoErr]

BlacklistToken(c, db, token, expiresAt, t, ok) ==
    IF ~Active(c) THEN [db |-> db, err |-> NoErr]
    ELSE LET ttl == expiresAt - t IN
         IF ttl <= 0 THEN [db |-> db, err |-> NoErr]
         ELSE IF ~ok THEN [db |-> db, err |-> "failed to blacklist token"]
         ELSE [db |-> RedisSet(db, BlacklistKey(token), "1", ttl, t), err |-> NoErr]

\* Mutant: the TTL is the configured token lifetime, not the remaining lifetime.
CacheValidTokenFixedTTL(c, db, token, userID, expiresAt, t, ok) ==
    IF ~Active(c) THEN [db |-> db, err |-> NoErr]
    ELSE IF ~ok THEN [db |-> db, err |-> "redis"]
    ELSE [db |-> RedisSet(db, ValidKey(token), FormatInt(userID), AccessTokenExp, t),
          err |-> NoErr]

CacheValidToken(c, db, token, userID, expiresAt, t, ok) ==
    IF ~Active(c) THEN [db |-> db, err |-> NoErr]
    ELSE LET ttl == expiresAt - t IN
         IF ttl <= 0 THEN [db |-> db, err |-> NoErr]
         ELSE IF ~ok THEN [db |-> db, err |-> "redis"]
         ELSE [db |-> RedisSet(db, ValidKey(token), FormatInt(userID), ttl, t), err |-> NoErr]

GetCachedToken(c, db, token, t, ok) ==
    IF ~Active(c) THEN [userID |-> 0, found |-> FALSE, log |-> {}]
    ELSE IF ~ok THEN [userID |-> 0, found |-> FALSE, log |-> {LogEntry("Failed to get cached token", 0, "")}]
    ELSE IF ~Live(db, ValidKey(token), t) THEN [userID |-> 0, found |-> FALSE, log |-> {}]
    ELSE [userID |-> ParseInt(db[ValidKey(token)].val), found |-> TRUE, log |-> {}]

InvalidateToken(c, db, token, ok) ==
    IF ~Active(c) THEN [db |-> db, err |-> NoErr]
    ELSE IF ~ok THEN [db |-> db, err |-> "redis"]
    ELSE [db |-> RedisDel(db, ValidKey(token)), err |-> NoErr]

\* ------------------------------------------------------------- HTTP replies
\* The data of a reply that carries none (nil).
NoData == [AccessToken |-> NoClaims, RefreshToken |-> NoClaims]

ApiResponse(data, err) ==
    IF err # NoErr THEN [Code |-> "ERROR", Msg |-> err, Data |-> NoData]
    ELSE [Code |-> "SUCCESS", Msg |-> "success", Data |-> data]

ResponseApi(data, err) == [status |-> StatusOK, body |-> ApiResponse(data, err)]

\* handleError works out a status and a message, logs them, and answers through
\* common.ResponseApi.
handleError(err) ==
    LET status == IF err \in {"ErrMissingToken", "ErrMalformedToken"}
                  THEN StatusBadRequest ELSE StatusUnauthorized
        message == CASE err = "ErrMissingToken" -> "Missing authentication token"
                     [] err = "ErrMalformedToken" -> "Malformed authentication token"
                     [] err = "ErrTokenExpired" -> "Token has expired"
                     [] err = "ErrInvalidSignature" -> "Invalid token signature"
                     [] err = "ErrInvalidToken" -> "Invalid token"
                     [] OTHER -> "Authentication failed"
    IN  [ resp |-> ResponseApi(NoData, err),
          log  |-> {LogEntry("Status error", status, message)} ]

\* c.Status(status).JSON(fiber.Map{"error": ..., "message": ...})
JSONReply(status, code, message) ==
    [status |-> status, body |-> [Code |-> code, Msg |-> message, Data |-> NoData]]

\* ---------------------------------------------------------------- requests
\* The Authorization header as strings.Split(auth, " ") sees it: whether it is
\* non-empty, how many parts it has, its first part and its second part.
Header(set, n, scheme, token) ==
    [set |-> set, n |-> n, scheme |-> scheme, token |-> token]

Lower(str) == IF str = "Bearer" THEN "bearer" ELSE str
EqualFold(a, b) == Lower(a) = Lower(b)

\* The tokens the service has minted, by the kind they were minted as.
AccessTokens == {p.AccessToken : p \in issued}
RefreshTokens == {p.RefreshToken : p \in issued} \ {NoClaims}
Presentable == AccessTokens \cup RefreshTokens \cup ForeignTokens

Headers ==
    { Header(FALSE, 0, "", NoClaims),
      Header(TRUE, 1, Prefix, NoClaims),
      Header(TRUE, 3, Prefix, NoClaims),
      Header(TRUE, 2, "Basic", NoClaims) }
    \cup { Header(TRUE, 2, Prefix, t) : t \in Presentable }
    \cup { Header(TRUE, 2, "bearer", t) : t \in AccessTokens }

\* The RefreshToken header of the refresh route: the forms above, and a bare
\* token with no scheme in front.
RefreshHeaders ==
    Headers \cup { Header(TRUE, 1, "", t) : t \in Presentable }

\* strings.TrimPrefix(refreshToken, Prefix + " "): only the exact prefix is cut;
\* whatever else the header holds is handed to the parser as it is.
TrimPrefix(h) ==
    IF h.n = 2 /\ h.scheme = Prefix THEN h.token
    ELSE IF h.n = 1 /\ h.scheme = "" THEN h.token
    ELSE GarbageToken

NoReply == [status |-> 0, body |-> [Code |-> "", Msg |-> "", Data |-> NoData]]

IdleReq ==
    [ pc       |-> "idle",
      op       |-> "",
      tok      |-> NoClaims,     \* tokenString := accessToken[1]
      claims   |-> NoClaims,
      reply    |-> NoReply,
      next     |-> FALSE,        \* c.Next() was called
      user_id  |-> 0,            \* c.Locals("user_id"), 0 when unset
      username |-> "",           \* c.Locals("username"), "" when unset
      outcome  |-> "",
      calls    |-> <<>>,         \* history: the calls made, in order
      failed   |-> {},           \* history: the store calls that failed
      logs     |-> {},           \* what the request wrote to the log
      after    |-> FALSE,        \* history: revocation lookup made after a logout
      afterWrite |-> FALSE,      \* history: ... after a Logout's BlacklistToken returned nil
      afterCached |-> FALSE,     \* history: ... of a token that was cached then
      cached   |-> FALSE,        \* history: Logout found the token cached
      blResult |-> FALSE,        \* history: what IsBlacklisted returned
      late     |-> FALSE,        \* history: the cache write came at or after expiry
      blFresh  |-> FALSE,        \* history: the token was unexpired at that lookup
      vFresh   |-> FALSE ]       \* history: ... and when ValidateToken ran

\* ------------------------------------------------------------- idle states
IdlePw ==
    [ pc |-> "idle", password |-> <<>>, encodedHash |-> <<>>, hashErr |-> NoErr,
      attempt |-> <<>>, against |-> <<>>, match |-> FALSE, verifyErr |-> NoErr,
      handler |-> "", name |-> "", found |-> FALSE, reply |-> NoReply,
      salt |-> <<>>, second |-> <<>>,
      decodedHash |-> <<>>, passwordHash |-> <<>>, steps |-> 0 ]

\* What a counter store returns for a key it does not hold.
NoItem == [currHits |-> 0, exp |-> 0, expireAt |-> 0]

NoStorage == [k \in {} |-> NoItem]

NoHandler ==
    [ built |-> FALSE, tier |-> "", pass |-> TRUE, Storage |-> "memory",
      Max |-> 0, Expiration |-> 0,
      SkipFailedRequests |-> FALSE, SkipSuccessfulRequests |-> FALSE,
      error |-> "", mux |-> 0, memory |-> NoStorage ]

IdleLimit ==
    [ pc |-> "idle", l |-> 0, key |-> "", e |-> NoItem, remaining |-> 0,
      status |-> 0, error |-> "",
      admits |-> <<>> ]   \* history: the tiers the request met and what each decided

\* The subsystems at rest, for the specifications that leave them alone.
AuthIdle ==
    /\ now = 0
    /\ cfg = [ AccessTokenSecret |-> "secretA", RefreshTokenSecret |-> "secretB",
               jwtCache |-> NilJWTCache, Redis |-> [DB |-> 0] ]
    /\ issued = {}
    /\ redis = [k \in {} |-> [val |-> "", expireAt |-> 0]]
    /\ req = [i \in Slots |-> IdleReq]
    /\ loggedOut = {}

LimiterIdle ==
    /\ rlConfig = [ Enabled |-> FALSE, Max |-> 0, Expiration |-> 0,
                    SkipFailedReq |-> FALSE, SkipSuccessReq |-> FALSE,
                    AuthEnabled |-> FALSE, AuthMax |-> 0, AuthExpiration |-> 0,
                    RedisDB |-> 1 ]
    /\ handlers = [l \in Limiters |-> NoHandler]
    /\ storage = NoStorage
    /\ lreq = [r \in LimitSlots |-> IdleLimit]
    /\ hist = <<>>

Tok(i) == req[i].tok

\* Mutant: the error answer is written but the handler chain goes on.
AbortAndContinue(r, outcome, h) ==
    [r EXCEPT !.pc = "done", !.outcome = outcome, !.reply = h.resp,
              !.logs = @ \cup h.log, !.next = TRUE]

\* The request ends with an error answer; the handler chain stops here.
Abort(r, outcome, h) ==
    [r EXCEPT !.pc = "done", !.outcome = outcome, !.reply = h.resp,
              !.logs = @ \cup h.log]

\* Mutant: only the presence of the header is checked before the store is asked.
AuthBeginNoSchemeCheck(i, h) ==
    /\ req[i].pc = "idle"
    /\ LET r0 == [IdleReq EXCEPT !.op = "auth"] IN
       req' = [req EXCEPT ![i] =
           IF ~h.set THEN Abort(r0, "missing", handleError("ErrMissingToken"))
           ELSE [r0 EXCEPT !.tok = h.token,
                           !.pc = IF cfg.jwtCache.ptr # "nil"
                                  THEN "bl" ELSE "validate"]]
    /\ UNCHANGED <<now, cfg, issued, redis, loggedOut>>
    /\ UNCHANGED <<pw, limiterVars>>

\* AuthMiddleware, lines 272-283: read the header and split it.
AuthBegin(i, h) ==
    /\ req[i].pc = "idle"
    /\ LET r0 == [IdleReq EXCEPT !.op = "auth"] IN
       req' = [req EXCEPT ![i] =
           IF ~h.set THEN Abort(r0, "missing", handleError("ErrMissingToken"))
           ELSE IF h.n # 2 \/ ~EqualFold(h.scheme, Prefix)
                THEN Abort(r0, "malformed", handleError("ErrMalformedToken"))
                ELSE [r0 EXCEPT !.tok = h.token,
                                !.pc = IF cfg.jwtCache.ptr # "nil"
                                       THEN "bl" ELSE "validate"]]
    /\ UNCHANGED <<now, cfg, issued, redis, loggedOut>>
    /\ UNCHANGED <<pw, limiterVars>>

\* Mutant: the blacklist hit is logged but the handler does not return.
AuthIsBlacklistedNoReturn(i, ok) ==
    /\ req[i].pc = "bl"
    /\ LET b == IsBlacklisted(cfg.jwtCache, redis, Tok(i), now, ok) IN
       req' = [req EXCEPT ![i] =
           [@ EXCEPT !.pc = "cache", !.calls = Append(@, "IsBlacklisted"),
                     !.logs = @ \cup b.log, !.blResult = b.result]]
    /\ UNCHANGED <<now, cfg, issued, redis, loggedOut>>
    /\ UNCHANGED <<pw, limiterVars>>

\* History: a Logout of this token has got past its BlacklistToken call (the
\* call returned nil), whether or not it has answered yet.
WriteDone(token) ==
    \/ \E l \in loggedOut : l.token = token
    \/ \E j \in OpSlots :
          /\ req[j].op = "logout"
          /\ req[j].tok = token
          /\ \/ req[j].pc = "invalidate"
             \/ req[j].pc = "done" /\ req[j].outcome = "logged_out"

\* AuthMiddleware, lines 285-292: the blacklist lookup.
AuthIsBlacklisted(i, ok) ==
    /\ req[i].pc = "bl"
    /\ LET b  == IsBlacklisted(cfg.jwtCache, redis, Tok(i), now, ok)
           r1 == [req[i] EXCEPT
                    !.calls  = Append(@, "IsBlacklisted"),
                    !.logs   = @ \cup b.log,
                    !.failed = IF Active(cfg.jwtCache) /\ ~ok
                               THEN @ \cup {"IsBlacklisted"} ELSE @,
                    !.after  = \E l \in loggedOut : l.token = Tok(i),
                    !.afterWrite = WriteDone(Tok(i)),
                    !.afterCached = \E l \in loggedOut : l.token = Tok(i) /\ l.cached,
                    !.blResult = b.result,
                    !.blFresh = now < Tok(i).ExpiresAt]
       IN  req' = [req EXCEPT ![i] =
               IF b.result
               THEN Abort([r1 EXCEPT !.logs = @ \cup
                              {LogEntry("Blocked blacklisted token attempt", 0, "")}],
                          "revoked", handleError("token has been revoked"))
               ELSE [r1 EXCEPT !.pc = "cache"]]
    /\ UNCHANGED <<now, cfg, issued, redis, loggedOut>>
    /\ UNCHANGED <<pw, limiterVars>>

\* Mutant: a hit is not trusted; the token is validated and cached again.
AuthGetCachedRevalidate(i, ok) ==
    /\ req[i].pc = "cache"
    /\ LET g == GetCachedToken(cfg.jwtCache, redis, Tok(i), now, ok) IN
       req' = [req EXCEPT ![i] =
               [@ EXCEPT !.pc = "validate",
                         !.calls  = Append(@, "GetCachedToken"),
                         !.logs   = @ \cup g.log,
                         !.failed = IF Active(cfg.jwtCache) /\ ~ok
                                    THEN @ \cup {"GetCachedToken"} ELSE @]]
    /\ UNCHANGED <<now, cfg, issued, redis, loggedOut>>
    /\ UNCHANGED <<pw, limiterVars>>

\* AuthMiddleware, lines 294-313: the validity-cache lookup; a hit publishes the
\* cached user id and calls the next handler.
AuthGetCached(i, ok) ==
    /\ req[i].pc = "cache"
    /\ LET g  == GetCachedToken(cfg.jwtCache, redis, Tok(i), now, ok)
           r1 == [req[i] EXCEPT
                    !.calls  = Append(@, "GetCachedToken"),
                    !.logs   = @ \cup g.log,
                    !.failed = IF Active(cfg.jwtCache) /\ ~ok
                               THEN @ \cup {"GetCachedToken"} ELSE @]
       IN  req' = [req EXCEPT ![i] =
               IF g.found
               THEN [r1 EXCEPT !.pc = "done", !.outcome = "authenticated",
                               !.claims = [NoClaims EXCEPT !.UserId = g.userID],
                               !.user_id = g.userID, !.next = TRUE]
               ELSE [r1 EXCEPT !.pc = "validate"]]
    /\ UNCHANGED <<now, cfg, issued, redis, loggedOut>>
    /\ UNCHANGED <<pw, limiterVars>>

\* Mutant: the token's claims go to the cache write before the validation
\* result is looked at.
AuthValidateCacheFirst(i) ==
    /\ req[i].pc = "validate"
    /\ req[i].op = "auth"
    /\ req' = [req EXCEPT ![i] =
           [@ EXCEPT !.calls = Append(@, "ValidateToken"),
                     !.vFresh = now < Tok(i).ExpiresAt,
                     !.pc = "remember", !.claims = Tok(i)]]
    /\ UNCHANGED <<now, cfg, issued, redis, loggedOut>>
    /\ UNCHANGED <<pw, limiterVars>>

\* AuthMiddleware, lines 315-330 up to the cache write: full validation.  Without
\* a cache the identity is published at once.
AuthValidate(i) ==
    /\ req[i].pc = "validate"
    /\ req[i].op = "auth"
    /\ LET v  == ValidateToken(Tok(i), cfg.AccessTokenSecret, Prefix, now)
           r1 == [req[i] EXCEPT !.calls = Append(@, "ValidateToken"),
                                !.vFresh = now < Tok(i).ExpiresAt]
       IN  req' = [req EXCEPT ![i] =
               IF v.err # NoErr THEN Abort(r1, "invalid", handleError(v.err))
               ELSE IF cfg.jwtCache.ptr # "nil"
                    THEN [r1 EXCEPT !.pc = "remember", !.claims = v.claims]
                    ELSE [r1 EXCEPT !.pc = "done", !.outcome = "authenticated",
                                    !.claims = v.claims,
                                    !.user_id = v.claims.UserId,
                                    !.username = v.claims.UserName,
                                    !.next = TRUE]]
    /\ UNCHANGED <<now, cfg, issued, redis, loggedOut>>
    /\ UNCHANGED <<pw, limiterVars>>

\* Mutant: a failed cache write fails the request.
AuthRememberStrict(i, ok) ==
    /\ req[i].pc = "remember"
    /\ LET c == req[i].claims
           w == CacheValidToken(cfg.jwtCache, redis, Tok(i), c.UserId, c.ExpiresAt, now, ok)
           r1 == [req[i] EXCEPT !.calls = Append(@, "CacheValidToken"),
                                !.failed = IF w.err # NoErr
                                           THEN @ \cup {"CacheValidToken"} ELSE @,
                                !.late = c.ExpiresAt - now <= 0]
       IN  /\ redis' = w.db
           /\ req' = [req EXCEPT ![i] =
                 IF w.err # NoErr THEN Abort(r1, "invalid", handleError(w.err))
                 ELSE [r1 EXCEPT !.pc = "done", !.outcome = "authenticated",
                                 !.user_id = c.UserId, !.username = c.UserName,
                                 !.next = TRUE]]
    /\ UNCHANGED <<now, cfg, issued, loggedOut>>
    /\ UNCHANGED <<pw, limiterVars>>

\* AuthMiddleware, lines 321-330: cache the validated token (its error is
\* dropped), publish the claims, call the next handler.
AuthRemember(i, ok) ==
    /\ req[i].pc = "remember"
    /\ LET c == req[i].claims
           w == CacheValidToken(cfg.jwtCache, redis, Tok(i), c.UserId, c.ExpiresAt, now, ok)
       IN  /\ redis' = w.db
           /\ req' = [req EXCEPT ![i] =
                 [@ EXCEPT !.pc = "done", !.outcome = "authenticated",
                           !.calls = Append(@, "CacheValidToken"),
                           !.failed = IF w.err # NoErr
                                      THEN @ \cup {"CacheValidToken"} ELSE @,
                           !.late = c.ExpiresAt - now <= 0,
                           !.user_id = c.UserId, !.username = c.UserName,
                           !.next = TRUE]]
    /\ UNCHANGED <<now, cfg, issued, loggedOut>>
    /\ UNCHANGED <<pw, limiterVars>>

Answer(r, outcome, reply) ==
    [r EXCEPT !.pc = "done", !.outcome = outcome, !.reply = reply]

\* A Logout that goes to the store without looking at the validation result.
LogoutBeginUnvalidated(i, h) ==
    /\ req[i].pc = "idle"
    /\ h.set
    /\ h.n = 2
    /\ EqualFold(h.scheme, Prefix)
    /\ cfg.jwtCache.ptr # "nil"
    /\ LET v == ValidateToken(h.token, cfg.AccessTokenSecret, Prefix, now) IN
       req' = [req EXCEPT ![i] =
                  [IdleReq EXCEPT !.op = "logout", !.tok = h.token,
                                  !.calls = <<"ValidateToken">>,
                                  !.vFresh = now < h.token.ExpiresAt,
                                  !.pc = "blacklist", !.claims = h.token]]
    /\ UNCHANGED <<now, cfg, issued, redis, loggedOut>>
    /\ UNCHANGED <<pw, limiterVars>>

\* Logout, lines 405-448: read the header, validate the token to learn its
\* expiry, and without a cache acknowledge at once.
LogoutBegin(i, h) ==
    /\ req[i].pc = "idle"
    /\ LET r0 == [IdleReq EXCEPT !.op = "logout"]
           v  == ValidateToken(h.token, cfg.AccessTokenSecret, Prefix, now)
           r1 == [r0 EXCEPT !.tok = h.token, !.calls = <<"ValidateToken">>,
                             !.vFresh = now < h.token.ExpiresAt]
       IN  req' = [req EXCEPT ![i] =
               IF ~h.set
               THEN Answer(r0, "missing",
                           JSONReply(StatusBadRequest, "missing_token", "No token provided"))
               ELSE IF h.n # 2 \/ ~EqualFold(h.scheme, Prefix)
               THEN Answer(r0, "malformed",
                           JSONReply(StatusBadRequest, "invalid_token_format",
                                     "Invalid token format"))
               ELSE IF v.err # NoErr
               THEN Answer(r1, "invalid",
                           JSONReply(StatusUnauthorized, "invalid_token",
                                     "Invalid or expired token"))
               ELSE IF cfg.jwtCache.ptr # "nil"
               THEN [r1 EXCEPT !.pc = "blacklist", !.claims = v.claims]
               ELSE Answer([r1 EXCEPT !.claims = v.claims,
                                      !.logs = {LogEntry("Logout called but JWT caching is disabled", 0, "")}],
                           "acknowledged",
                           JSONReply(StatusOK, "",
                                     "Logout acknowledged (caching disabled, token will expire naturally)"))]
    /\ UNCHANGED <<now, cfg, issued, redis, loggedOut>>
    /\ UNCHANGED <<pw, limiterVars>>

\* expireJwtCache, lines 451-462: blacklist the token; a failure answers 500.
LogoutBlacklist(i, ok) ==
    /\ req[i].pc = "blacklist"
    /\ LET b  == BlacklistToken(cfg.jwtCache, redis, Tok(i), req[i].claims.ExpiresAt, now, ok)
           r1 == [req[i] EXCEPT !.calls = Append(@, "BlacklistToken"),
                                !.late = req[i].claims.ExpiresAt - now <= 0,
                                !.cached = Live(redis, ValidKey(Tok(i)), now)]
       IN  /\ redis' = b.db
           /\ req' = [req EXCEPT ![i] =
                 IF b.err # NoErr
                 THEN Answer([r1 EXCEPT !.failed = @ \cup {"BlacklistToken"},
                                        !.logs = @ \cup {LogEntry("Failed to blacklist token during logout", 0, "")}],
                             "logout_failed",
                             JSONReply(StatusInternalServerError, "logout_failed",
                                       "Failed to complete logout"))
                 ELSE [r1 EXCEPT !.pc = "invalidate"]]
    /\ UNCHANGED <<now, cfg, issued, loggedOut>>
    /\ UNCHANGED <<pw, limiterVars>>

\* expireJwtCache, lines 464-474: drop the validity entry (its error is dropped)
\* and answer.
LogoutInvalidate(i, ok) ==
    /\ req[i].pc = "invalidate"
    /\ LET d == InvalidateToken(cfg.jwtCache, redis, Tok(i), ok) IN
       /\ redis' = d.db
       /\ req' = [req EXCEPT ![i] =
             Answer([@ EXCEPT !.calls = Append(@, "InvalidateToken"),
                              !.failed = IF d.err # NoErr
                                         THEN @ \cup {"InvalidateToken"} ELSE @,
                              !.logs = @ \cup {LogEntry("User logged out successfully", 0, "")}],
                    "logged_out",
                    JSONReply(StatusOK, "", "Logged out successfully"))]
       /\ loggedOut' = loggedOut \cup {[token |-> Tok(i), cached |-> req[i].cached]}
    /\ UNCHANGED <<now, cfg, issued>>
    /\ UNCHANGED <<pw, limiterVars>>

\* The reply has been sent; the goroutine ends.
Finish(i) ==
    /\ req[i].pc = "done"
    /\ req' = [req EXCEPT ![i] = IdleReq]
    /\ UNCHANGED <<now, cfg, issued, redis, loggedOut>>
    /\ UNCHANGED <<pw, limiterVars>>

\* RegisterUser / LoginUser hand a fresh token pair to a user.
IssueTokens(u) ==
    /\ Cardinality(issued) < MaxIssue
    /\ issued' = issued \cup {GenerateTokenPair(cfg, u, UserName(u), now)}
    /\ UNCHANGED <<now, cfg, redis, req, loggedOut>>
    /\ UNCHANGED <<pw, limiterVars>>

\* Time passes; Redis drops the entries whose TTL has run out.
Tick ==
    /\ now < MaxTime
    /\ now' = now + 1
    /\ redis' = Expire(redis, now + 1)
    /\ UNCHANGED <<cfg, issued, req, loggedOut>>
    /\ UNCHANGED <<pw, limiterVars>>

\* NewAuthenHandler(config, jwtCache): the token secrets and the cache wiring.
\* A deployment as configured in run.sh: two different secrets, and a cache that
\* is a nil pointer, constructed disabled, or enabled on a Redis client.
Configs ==
    [ AccessTokenSecret  : {"secretA"},
      RefreshTokenSecret : {"secretB"},
      jwtCache : {NilJWTCache, NewJWTCache("client", TRUE), NewJWTCache("client", FALSE)},
      Redis : {[DB |-> 0]} ]

Init ==
    /\ now = 0
    /\ cfg \in Configs
    /\ issued = {}
    /\ redis = [k \in {} |-> [val |-> "", expireAt |-> 0]]
    /\ req = [i \in Slots |-> IdleReq]
    /\ loggedOut = {}
    /\ pw = IdlePw
    /\ LimiterIdle

Next ==
    \/ \E i \in AuthSlots, h \in Headers : AuthBegin(i, h)
    \/ \E i \in Slots, ok \in BOOLEAN : AuthIsBlacklisted(i, ok)
    \/ \E i \in Slots, ok \in BOOLEAN : AuthGetCached(i, ok)
    \/ \E i \in Slots : AuthValidate(i)
    \/ \E i \in Slots, ok \in BOOLEAN : AuthRemember(i, ok)
    \/ \E i \in OpSlots, h \in Headers : LogoutBegin(i, h)
    \/ \E i \in Slots, ok \in BOOLEAN : LogoutBlacklist(i, ok)
    \/ \E i \in Slots, ok \in BOOLEAN : LogoutInvalidate(i, ok)
    \/ \E i \in Slots : Finish(i)
    \/ \E u \in Users : IssueTokens(u)
    \/ Tick

Spec == Init /\ [][Next]_vars

\* The goroutine of a request is scheduled until the handler returns, and every
\* Redis call returns (with a value or with an error): a request that has
\* entered AuthMiddleware keeps taking its next step.
AuthStep(i) ==
    \/ \E ok \in BOOLEAN : AuthIsBlacklisted(i, ok)
    \/ \E ok \in BOOLEAN : AuthGetCached(i, ok)
    \/ AuthValidate(i)
    \/ \E ok \in BOOLEAN : AuthRemember(i, ok)

SpecLive == Init /\ [][Next]_vars /\ \A i \in AuthSlots : WF_vars(AuthStep(i))

\* Mutant: the refresh route answers with a whole new pair (the refresh token is
\* rotated).
RefreshTokenRotate(i, h) ==
    /\ req[i].pc = "idle"
    /\ Cardinality(issued) <= MaxIssue
    /\ LET r0   == [IdleReq EXCEPT !.op = "refresh"]
           tok  == TrimPrefix(h)
           v    == ValidateRefreshToken(cfg, tok, now)
           pair == GenerateTokenPair(cfg, v.claims.UserId, v.claims.UserName, now)
           r1   == [r0 EXCEPT !.tok = tok, !.calls = <<"ValidateToken">>,
                              !.vFresh = now < tok.ExpiresAt]
       IN  IF ~h.set
           THEN /\ req' = [req EXCEPT ![i] =
                      Answer(r0, "missing", ResponseApi(NoData, "ErrMissingToken"))]
                /\ UNCHANGED issued
           ELSE IF v.err # NoErr
           THEN /\ req' = [req EXCEPT ![i] =
                      Answer(r1, "invalid", ResponseApi(NoData, v.err))]
                /\ UNCHANGED issued
           ELSE /\ req' = [req EXCEPT ![i] =
                      Answer([r1 EXCEPT !.claims = v.claims], "refreshed",
                             ResponseApi([AccessToken |-> pair.AccessToken,
                                          RefreshToken |-> pair.RefreshToken], NoErr))]
                /\ issued' = issued \cup {pair}
    /\ UNCHANGED <<now, cfg, redis, loggedOut>>
    /\ UNCHANGED <<pw, limiterVars>>

\* handler.RefreshToken, lines 733-751 (the /auth/refresh route): validate the
\* refresh token, mint a new access token, and answer with the pair.
RefreshToken(i, h) ==
    /\ req[i].pc = "idle"
    /\ Cardinality(issued) <= MaxIssue
    /\ LET r0   == [IdleReq EXCEPT !.op = "refresh"]
           tok  == TrimPrefix(h)
           v    == ValidateRefreshToken(cfg, tok, now)
           pair == GenerateAcessToken(cfg, v.claims.UserId, v.claims.UserName, now)
           r1   == [r0 EXCEPT !.tok = tok, !.calls = <<"ValidateToken">>,
                              !.vFresh = now < tok.ExpiresAt]
       IN  IF ~h.set
           THEN /\ req' = [req EXCEPT ![i] =
                      Answer(r0, "missing", ResponseApi(NoData, "ErrMissingToken"))]
                /\ UNCHANGED issued
           ELSE IF v.err # NoErr
           THEN /\ req' = [req EXCEPT ![i] =
                      Answer(r1, "invalid", ResponseApi(NoData, v.err))]
                /\ UNCHANGED issued
           ELSE /\ req' = [req EXCEPT ![i] =
                      Answer([r1 EXCEPT !.claims = v.claims], "refreshed",
                             ResponseApi([AccessToken |-> pair.AccessToken,
                                          RefreshToken |-> tok], NoErr))]
                /\ issued' = issued \cup {pair}
    /\ UNCHANGED <<now, cfg, redis, loggedOut>>
    /\ UNCHANGED <<pw, limiterVars>>

\* AuthAdapter.InvalidateToken: returns nil and does nothing else.
AuthAdapterInvalidateToken(token) == NoErr

\* authUseCase.Logout: hands the token to the token generator's InvalidateToken.
UseCaseLogout(accessToken) == AuthAdapterInvalidateToken(accessToken)

\* A caller of the use-case layer logs a token out; the call returns its error
\* (nil: the token counts as logged out) and the store is as it was.
UseCaseLogoutCall(i, tok) ==
    /\ req[i].pc = "idle"
    /\ LET err == UseCaseLogout(tok)
           r0  == [IdleReq EXCEPT !.op = "usecase_logout", !.tok = tok]
       IN  /\ req' = [req EXCEPT ![i] = Answer(r0, err, NoReply)]
           /\ loggedOut' = IF err = NoErr
                              THEN loggedOut \cup
                                     {[token |-> tok,
                                       cached |-> Live(redis, ValidKey(tok), now)]}
                              ELSE loggedOut
    /\ UNCHANGED <<now, cfg, issued, redis>>
    /\ UNCHANGED <<pw, limiterVars>>

\* The use-case layer in front of the same AuthenHandler and cache: tokens are
\* issued, logged out through AuthUseCase.Logout, and presented to
\* AuthMiddleware.
InitUseCase ==
    /\ now = 0
    /\ cfg \in {c \in Configs : c.jwtCache.ptr # "nil"}
    /\ issued = {}
    /\ redis = [k \in {} |-> [val |-> "", expireAt |-> 0]]
    /\ req = [i \in Slots |-> IdleReq]
    /\ loggedOut = {}
    /\ pw = IdlePw
    /\ LimiterIdle

NextUseCase ==
    \/ \E u \in Users : IssueTokens(u)
    \/ \E i \in AuthSlots, h \in Headers : AuthBegin(i, h)
    \/ \E i \in Slots, ok \in BOOLEAN : AuthIsBlacklisted(i, ok)
    \/ \E i \in Slots, ok \in BOOLEAN : AuthGetCached(i, ok)
    \/ \E i \in Slots : AuthValidate(i)
    \/ \E i \in Slots, ok \in BOOLEAN : AuthRemember(i, ok)
    \/ \E i \in OpSlots, tok \in AccessTokens : UseCaseLogoutCall(i, tok)
    \/ \E i \in Slots : Finish(i)
    \/ Tick

SpecUseCase == InitUseCase /\ [][NextUseCase]_vars

\* Two goroutines, each serving an AuthMiddleware request or a Logout, against
\* a cache that was constructed: requests for one token overlap at every step.
ConcurrentHeaders ==
    { Header(TRUE, 2, Prefix, t) : t \in AccessTokens \cup RefreshTokens }
    \cup { Header(TRUE, 2, Prefix, generateToken(1, UserName(1), Prefix, "foreign", MaxTime + 2, 0)) }

NextConcurrent ==
    \/ \E u \in Users : IssueTokens(u)
    \/ \E i \in Slots, h \in ConcurrentHeaders : AuthBegin(i, h)
    \/ \E i \in Slots, ok \in BOOLEAN : AuthIsBlacklisted(i, ok)
    \/ \E i \in Slots, ok \in BOOLEAN : AuthGetCached(i, ok)
    \/ \E i \in Slots : AuthValidate(i)
    \/ \E i \in Slots, ok \in BOOLEAN : AuthRemember(i, ok)
    \/ \E i \in Slots, h \in ConcurrentHeaders : LogoutBegin(i, h)
    \/ \E i \in Slots, ok \in BOOLEAN : LogoutBlacklist(i, ok)
    \/ \E i \in Slots, ok \in BOOLEAN : LogoutInvalidate(i, ok)
    \/ \E i \in Slots : Finish(i)
    \/ Tick

SpecConcurrent == InitUseCase /\ [][NextConcurrent]_vars

\* A session from login to logout and beyond: a pair is issued, requests carry
\* its access token, a Logout revokes it, and the refresh route mints further
\* access tokens from the pair's refresh token, before or after the Logout.  The
\* store answers every call.
NextSession ==
    \/ \E u \in Users : IssueTokens(u)
    \/ \E i \in AuthSlots, h \in ConcurrentHeaders : AuthBegin(i, h)
    \/ \E i \in AuthSlots : AuthIsBlacklisted(i, TRUE)
    \/ \E i \in AuthSlots : AuthGetCached(i, TRUE)
    \/ \E i \in AuthSlots : AuthValidate(i)
    \/ \E i \in AuthSlots : AuthRemember(i, TRUE)
    \/ \E i \in OpSlots, h \in ConcurrentHeaders : LogoutBegin(i, h)
    \/ \E i \in OpSlots : LogoutBlacklist(i, TRUE)
    \/ \E i \in OpSlots : LogoutInvalidate(i, TRUE)
    \/ \E i \in OpSlots, h \in ConcurrentHeaders : RefreshToken(i, h)
    \/ \E i \in Slots : Finish(i)
    \/ Tick

SpecSession == InitUseCase /\ [][NextSession]_vars

\* The token issuer on its own: an AuthenHandler built without a cache
\* (NewAuthenHandler(config, nil)) and with any pair of secrets, equal ones
\* included.
TokenConfigs ==
    [ AccessTokenSecret  : Secrets,
      RefreshTokenSecret : Secrets,
      jwtCache : {NilJWTCache},
      Redis : {[DB |-> 0]} ]

InitTokens ==
    /\ now = 0
    /\ cfg \in TokenConfigs
    /\ issued = {}
    /\ redis = [k \in {} |-> [val |-> "", expireAt |-> 0]]
    /\ req = [i \in Slots |-> IdleReq]
    /\ loggedOut = {}
    /\ pw = IdlePw
    /\ LimiterIdle

NextTokens ==
    \/ \E u \in Users : IssueTokens(u)
    \/ Tick
    \/ \E i \in AuthSlots, h \in Headers : AuthBegin(i, h)
    \/ \E i \in AuthSlots : AuthValidate(i)
    \/ \E i \in OpSlots, h \in RefreshHeaders : RefreshToken(i, h)
    \/ \E i \in Slots : Finish(i)

SpecTokens == InitTokens /\ [][NextTokens]_vars

\* The Authorization header forms the middleware-level refresh handler is given:
\* the forms above, a bare token, and "Bearer" with the token right behind it
\* (no space in between).
AuthorizationHeaders ==
    RefreshHeaders \cup { Header(TRUE, 1, Prefix, t) : t \in Presentable }

\* strings.TrimPrefix(refreshToken, Prefix): the six letters are cut and nothing
\* else.  Of "Bearer <token>" a space and the token are left, a string whose
\* first segment is no base64url; of "Bearer<token>" and of a bare token, the
\* token; of anything else, something that is no JWT.
TrimPrefixOnly(h) ==
    IF h.n = 2 /\ h.scheme = Prefix THEN [h.token EXCEPT !.shape = "space jwt"]
    ELSE IF h.n = 1 /\ h.scheme \in {Prefix, ""} /\ h.token # NoClaims THEN h.token
    ELSE GarbageToken

\* AuthenHandler.RefreshToken, lines 356-378: read the Authorization header, cut
\* Prefix off, validate with the refresh secret and the kind RefreshTokenKeyName,
\* mint a new pair and answer it with c.JSON.
AuthenHandlerRefreshToken(i, h) ==
    /\ req[i].pc = "idle"
    /\ Cardinality(issued) <= MaxIssue
    /\ LET r0   == [IdleReq EXCEPT !.op = "middleware_refresh"]
           tok  == TrimPrefixOnly(h)
           v    == ValidateToken(tok, cfg.RefreshTokenSecret, RefreshTokenKeyName, now)
           pair == GenerateTokenPair(cfg, v.claims.UserId, v.claims.UserName, now)
           r1   == [r0 EXCEPT !.tok = tok, !.calls = <<"ValidateToken">>,
                              !.vFresh = now < tok.ExpiresAt]
       IN  IF ~h.set
           THEN /\ req' = [req EXCEPT ![i] =
                      Answer([r0 EXCEPT !.logs = handleError("ErrMissingToken").log],
                             "missing", handleError("ErrMissingToken").resp)]
                /\ UNCHANGED issued
           ELSE IF v.err # NoErr
           THEN /\ req' = [req EXCEPT ![i] =
                      Answer([r1 EXCEPT !.logs = handleError(v.err).log],
                             "invalid", handleError(v.err).resp)]
                /\ UNCHANGED issued
           ELSE /\ req' = [req EXCEPT ![i] =
                      Answer([r1 EXCEPT !.claims = v.claims], "refreshed",
                             [status |-> StatusOK,
                              body |-> [Code |-> "", Msg |-> "",
                                        Data |-> [AccessToken |-> pair.AccessToken,
                                                  RefreshToken |-> pair.RefreshToken]]])]
                /\ issued' = issued \cup {pair}
    /\ UNCHANGED <<now, cfg, redis, loggedOut>>
    /\ UNCHANGED <<pw, limiterVars>>

\* The token issuer with the middleware-level refresh handler mounted.
NextMiddlewareRefresh ==
    \/ \E u \in Users : IssueTokens(u)
    \/ Tick
    \/ \E i \in OpSlots, h \in AuthorizationHeaders : AuthenHandlerRefreshToken(i, h)
    \/ \E i \in Slots : Finish(i)

SpecMiddlewareRefresh == InitTokens /\ [][NextMiddlewareRefresh]_vars

\* --------------------------------------------------------------- passwords
\* Strings that are scanned or encoded are sequences of one-character strings;
\* []byte values are sequences of 0..255.
encodeStd ==
    << "A","B","C","D","E","F","G","H","I","J","K","L","M","N","O","P",
       "Q","R","S","T","U","V","W","X","Y","Z","a","b","c","d","e","f",
       "g","h","i","j","k","l","m","n","o","p","q","r","s","t","u","v",
       "w","x","y","z","0","1","2","3","4","5","6","7","8","9","+","/" >>

\* base64.RawStdEncoding.EncodeToString: three bytes to four characters, no
\* padding of the last group.
RECURSIVE EncodeToString(_)
EncodeToString(src) ==
    IF Len(src) = 0 THEN <<>>
    ELSE IF Len(src) = 1 THEN
        << encodeStd[(src[1] \div 4) + 1],
           encodeStd[((src[1] % 4) * 16) + 1] >>
    ELSE IF Len(src) = 2 THEN
        << encodeStd[(src[1] \div 4) + 1],
           encodeStd[((src[1] % 4) * 16 + (src[2] \div 16)) + 1],
           encodeStd[((src[2] % 16) * 4) + 1] >>
    ELSE
        << encodeStd[(src[1] \div 4) + 1],
           encodeStd[((src[1] % 4) * 16 + (src[2] \div 16)) + 1],
           encodeStd[((src[2] % 16) * 4 + (src[3] \div 64)) + 1],
           encodeStd[(src[3] % 64) + 1] >>
        \o EncodeToString(SubSeq(src, 4, Len(src)))

decodeMap(c) == CHOOSE i \in 0..63 : encodeStd[i + 1] = c

RECURSIVE decodeQuanta(_)
decodeQuanta(s) ==
    IF Len(s) = 0 THEN <<>>
    ELSE IF Len(s) = 2 THEN
        << decodeMap(s[1]) * 4 + (decodeMap(s[2]) \div 16) >>
    ELSE IF Len(s) = 3 THEN
        << decodeMap(s[1]) * 4 + (decodeMap(s[2]) \div 16),
           (decodeMap(s[2]) % 16) * 16 + (decodeMap(s[3]) \div 4) >>
    ELSE
        << decodeMap(s[1]) * 4 + (decodeMap(s[2]) \div 16),
           (decodeMap(s[2]) % 16) * 16 + (decodeMap(s[3]) \div 4),
           (decodeMap(s[3]) % 4) * 64 + decodeMap(s[4]) >>
        \o decodeQuanta(SubSeq(s, 5, Len(s)))

\* base64.RawStdEncoding.DecodeString: a character outside the alphabet, or a
\* last group of one character, is a CorruptInputError.
DecodeString(s) ==
    IF \E k \in 1..Len(s) : \A i \in 1..64 : encodeStd[i] # s[k]
        THEN [bytes |-> <<>>, err |-> "illegal base64 data"]
    ELSE IF Len(s) % 4 = 1
        THEN [bytes |-> <<>>, err |-> "illegal base64 data"]
    ELSE [bytes |-> decodeQuanta(s), err |-> NoErr]

\* argon2.IDKey stands for a deterministic key derivation: keyLen bytes that
\* depend on the password, the salt and each cost parameter.
RECURSIVE Weigh(_)
Weigh(bytes) ==
    IF bytes = <<>> THEN 0
    ELSE (Len(bytes) * Head(bytes) + 31 * Weigh(Tail(bytes))) % 65521

IDKey(password, salt, time, memory, threads, keyLen) ==
    [ k \in 1..keyLen |->
        (Weigh(password) * 7 + Weigh(salt) * 13 + time * 5 + memory * 3
            + threads * 11 + k * 17) % 256 ]

\* subtle.ConstantTimeCompare: 1 when both slices have equal length and content.
ConstantTimeCompare(x, y) == IF x = y THEN 1 ELSE 0

\* Mutant: a comparison that stops at the first pair of bytes that differ.
RECURSIVE CompareLoopEarlyExit(_, _, _)
CompareLoopEarlyExit(x, y, acc) ==
    IF x = <<>> THEN acc
    ELSE IF Head(x) # Head(y)
        THEN [v |-> 1, steps |-> acc.steps + 1]
    ELSE CompareLoopEarlyExit(Tail(x), Tail(y), [acc EXCEPT !.steps = @ + 1])

\* The loop of subtle.ConstantTimeCompare, v |= x[i] ^ y[i] for every i: v is
\* kept as "some pair differed so far", steps counts the pairs looked at.
RECURSIVE CompareLoop(_, _, _)
CompareLoop(x, y, acc) ==
    IF x = <<>> THEN acc
    ELSE CompareLoop(Tail(x), Tail(y),
                     [v     |-> IF Head(x) # Head(y) THEN 1 ELSE acc.v,
                      steps |-> acc.steps + 1])

\* subtle.ConstantTimeCompare with the work it does: slices of different length
\* are answered 0 at once, otherwise the loop runs over every byte.
ConstantTimeCompareRun(x, y) ==
    IF Len(x) # Len(y) THEN [result |-> 0, steps |-> 0]
    ELSE LET r == CompareLoop(x, y, [v |-> 0, steps |-> 0])
         IN  [result |-> IF r.v = 0 THEN 1 ELSE 0, steps |-> r.steps]

decimal == <<"0", "1", "2", "3", "4", "5", "6", "7", "8", "9">>

\* The %d verb of fmt.Sprintf for a non-negative integer.
RECURSIVE FormatDecimal(_)
FormatDecimal(n) ==
    IF n < 10 THEN <<decimal[n + 1]>>
    ELSE Append(FormatDecimal(n \div 10), decimal[(n % 10) + 1])

\* The format string "$argon2id$v=%d$m=%d,t=%d,p=%d$%s$%s": its verbs, and the
\* runs of literal characters between them.
phcFormat ==
    << <<"$", "a", "r", "g", "o", "n", "2", "i", "d", "$", "v", "=">>, "%d",
       <<"$", "m", "=">>, "%d", <<",", "t", "=">>, "%d", <<",", "p", "=">>, "%d",
       <<"$">>, "%s", <<"$">>, "%s" >>

\* fmt.Sprintf over that format: each verb is replaced by its operand's text.
RECURSIVE Sprintf(_, _)
Sprintf(format, a) ==
    IF format = <<>> THEN <<>>
    ELSE IF Head(format) = "%d"
        THEN FormatDecimal(Head(a)) \o Sprintf(Tail(format), Tail(a))
    ELSE IF Head(format) = "%s"
        THEN Head(a) \o Sprintf(Tail(format), Tail(a))
    ELSE Head(format) \o Sprintf(Tail(format), a)

isSpace(c) == c \in {" ", "\t", "\n", "\r"}
isDigit(c) == \E i \in 1..10 : decimal[i] = c

\* The length of the longest prefix of input whose characters all are space
\* (kind "space"), digits (kind "digit") or not space (kind "token").
prefixLen(input, kind) ==
    LET in(c) == IF kind = "space" THEN isSpace(c)
                 ELSE IF kind = "digit" THEN isDigit(c)
                 ELSE ~isSpace(c)
        stops == {i \in 1..Len(input) : ~in(input[i])}
    IN  IF stops = {} THEN Len(input)
        ELSE (CHOOSE i \in stops : \A k \in stops : i <= k) - 1

SkipSpace(input) == SubSeq(input, prefixLen(input, "space") + 1, Len(input))

RECURSIVE ParseDecimal(_)
ParseDecimal(digits) ==
    IF digits = <<>> THEN 0
    ELSE 10 * ParseDecimal(SubSeq(digits, 1, Len(digits) - 1))
            + (CHOOSE i \in 0..9 : decimal[i + 1] = digits[Len(digits)])

\* The operands of the Sscanf call, in order: version int, memory and time
\* uint32, threads uint8, salt and hash string.  The numbers read here stay
\* below 2^31, so only the uint8 can overflow.
operandBits == <<64, 32, 32, 8, 0, 0>>

\* fmt.Sscanf (doScanf): a literal of the format must equal the next character
\* of the input; %d skips space and reads digits; %s skips space and reads up to
\* the next space or the end of the input, whatever characters lie between.
RECURSIVE doScanf(_, _, _)
doScanf(input, format, a) ==
    IF format = <<>> THEN [a |-> a, err |-> NoErr]
    ELSE IF Head(format) = "%d" THEN
        LET in == SkipSpace(input)
            n  == prefixLen(in, "digit")
            x  == ParseDecimal(SubSeq(in, 1, n))
        IN  IF in = <<>> THEN [a |-> a, err |-> "unexpected EOF"]
            ELSE IF n = 0 THEN [a |-> a, err |-> "expected integer"]
            ELSE IF operandBits[Len(a) + 1] < 31 /\ x >= 2 ^ operandBits[Len(a) + 1]
                THEN [a |-> a, err |-> "unsigned integer overflow"]
            ELSE doScanf(SubSeq(in, n + 1, Len(in)), Tail(format), Append(a, x))
    ELSE IF Head(format) = "%s" THEN
        LET in == SkipSpace(input)
            n  == prefixLen(in, "token")
        IN  IF in = <<>> THEN [a |-> a, err |-> "unexpected EOF"]
            ELSE doScanf(SubSeq(in, n + 1, Len(in)), Tail(format),
                         Append(a, SubSeq(in, 1, n)))
    ELSE
        LET lit == Head(format)
        IN  IF \E i \in 1..Len(lit) : i <= Len(input) /\ input[i] # lit[i]
                    /\ \A k \in 1..(i - 1) : input[k] = lit[k]
                THEN [a |-> a, err |-> "input does not match format"]
            ELSE IF Len(input) < Len(lit)
                THEN [a |-> a, err |-> "unexpected EOF"]
            ELSE doScanf(SubSeq(input, Len(lit) + 1, Len(input)), Tail(format), a)

Sscanf(str, format) == doScanf(str, format, <<>>)

\* Mutant: HashPassword without its check of the empty password.
HashPasswordUnchecked(password, salt) ==
    LET hash    == IDKey(password, salt, argon2Time, argon2Memory,
                         argon2Threads, argon2KeyLength)
        b64Salt == EncodeToString(salt)
        b64Hash == EncodeToString(hash)
    IN  [ encodedHash |->
            Sprintf(phcFormat, << argon2Version, argon2Memory, argon2Time,
                                  argon2Threads, b64Salt, b64Hash >>),
          err |-> NoErr ]

\* AuthenHandler.HashPassword with the salt rand.Read produced.
HashPassword(password, salt) ==
    IF password = <<>>
        THEN [encodedHash |-> <<>>, err |-> "password cannot be empty"]
    ELSE
        LET hash    == IDKey(password, salt, argon2Time, argon2Memory,
                             argon2Threads, argon2KeyLength)
            b64Salt == EncodeToString(salt)
            b64Hash == EncodeToString(hash)
        IN  [ encodedHash |->
                Sprintf(phcFormat, << argon2Version, argon2Memory, argon2Time,
                                      argon2Threads, b64Salt, b64Hash >>),
              err |-> NoErr ]

\* Mutant: VerifyPassword accepting whatever non-empty pair it is given.
VerifyPasswordLenient(password, encodedHash) ==
    IF password = <<>> THEN [match |-> FALSE, err |-> "password cannot be empty"]
    ELSE IF encodedHash = <<>> THEN [match |-> FALSE, err |-> "hash cannot be empty"]
    ELSE [match |-> TRUE, err |-> NoErr]

\* AuthenHandler.VerifyPassword.
VerifyPassword(password, encodedHash) ==
    IF password = <<>> THEN [match |-> FALSE, err |-> "password cannot be empty"]
    ELSE IF encodedHash = <<>> THEN [match |-> FALSE, err |-> "hash cannot be empty"]
    ELSE
        LET scan == Sscanf(encodedHash, phcFormat)
        IN  IF scan.err # NoErr
                THEN [match |-> FALSE, err |-> "invalid hash format: " \o scan.err]
            ELSE
                LET memory      == scan.a[2]
                    time        == scan.a[3]
                    threads     == scan.a[4]
                    decodedSalt == DecodeString(scan.a[5])
                    decodedHash == DecodeString(scan.a[6])
                    passwordHash ==
                        IDKey(password, decodedSalt.bytes, time, memory, threads,
                              Len(decodedHash.bytes))
                IN  IF decodedSalt.err # NoErr
                        THEN [match |-> FALSE,
                              err |-> "failed to decode salt: " \o decodedSalt.err]
                    ELSE IF decodedHash.err # NoErr
                        THEN [match |-> FALSE,
                              err |-> "failed to decode hash: " \o decodedHash.err]
                    ELSE [match |-> ConstantTimeCompare(decodedHash.bytes,
                                                        passwordHash) = 1,
                          err |-> NoErr]

\* The passwords tried, as []byte, the empty one included.
Passwords == { <<>> } \cup { <<112, 119, k>> : k \in 1..MaxPasswords }

\* What rand.Read may fill the salt with.
Salts ==
    { [i \in 1..argon2SaltLength |-> (s * 37 + i * 29) % 256] : s \in 1..MaxSalts }

\* A stored digest with the separator between salt and key replaced by a space.
Respaced(encodedHash) ==
    [ i \in 1..Len(encodedHash) |->
        IF i = Len(encodedHash)
                - Len(EncodeToString([k \in 1..argon2KeyLength |-> 0]))
            THEN " " ELSE encodedHash[i] ]

\* A caller hashes a password; rand.Read supplies the salt.
HashPasswordCall(password, salt) ==
    /\ pw.pc = "idle"
    /\ LET h == HashPassword(password, salt)
       IN  pw' = [pw EXCEPT !.pc = "hashed", !.password = password,
                            !.salt = salt,
                            !.encodedHash = h.encodedHash, !.hashErr = h.err]
    /\ UNCHANGED <<authVars, limiterVars>>

\* The same password is hashed a second time; rand.Read supplies a salt it has
\* not supplied before (a generator that repeats 16 bytes is left out).
HashPasswordAgain(salt) ==
    /\ pw.pc = "hashed"
    /\ pw.hashErr = NoErr
    /\ pw.second = <<>>
    /\ salt # pw.salt
    /\ pw' = [pw EXCEPT !.second = HashPassword(pw.password, salt).encodedHash]
    /\ UNCHANGED <<authVars, limiterVars>>

\* A caller verifies a password against a digest.
VerifyPasswordCall(password, encodedHash) ==
    /\ pw.pc = "hashed"
    /\ LET v == VerifyPassword(password, encodedHash)
       IN  pw' = [pw EXCEPT !.pc = "verified", !.attempt = password,
                            !.against = encodedHash,
                            !.match = v.match, !.verifyErr = v.err]
    /\ UNCHANGED <<authVars, limiterVars>>

\* A row of the users table as the login code reads it, and the answer of
\* GetUserByUsernameOrEmail / FindByUsernameOrEmail for a name with no row.
UserModel(id, hashPassword) ==
    [found |-> TRUE, ID |-> id, Username |-> UserName(id), HashPassword |-> hashPassword]

NoUser == [found |-> FALSE, ID |-> 0, Username |-> "", HashPassword |-> <<>>]

\* authHandler.LoginUser (the route of internal/route/user_route.go): look the
\* user up, verify the password, mint the token pair; every error is answered
\* through common.ResponseApi.
LoginUser(userModel, password, c, t) ==
    IF ~userModel.found
        THEN ResponseApi(NoData, "invalid username or password")
    ELSE
        LET v     == VerifyPassword(password, userModel.HashPassword)
            token == GenerateTokenPair(c, userModel.ID, userModel.Username, t)
        IN  IF v.err # NoErr THEN ResponseApi(NoData, "authentication failed")
            ELSE IF ~v.match
                THEN ResponseApi(NoData, "invalid username or password")
            ELSE ResponseApi([AccessToken |-> token.AccessToken,
                              RefreshToken |-> token.RefreshToken], NoErr)

\* authUseCase.Login: ErrInvalidCredentials when the user is not found and when
\* VerifyPassword returns an error or false.
Login(userModel, password, c, t) ==
    IF ~userModel.found
        THEN [output |-> NoData, err |-> "invalid username or password"]
    ELSE
        LET v         == VerifyPassword(password, userModel.HashPassword)
            tokenPair == GenerateTokenPair(c, userModel.ID, userModel.Username, t)
        IN  IF v.err # NoErr \/ ~v.match
                THEN [output |-> NoData, err |-> "invalid username or password"]
            ELSE [output |-> [AccessToken |-> tokenPair.AccessToken,
                              RefreshToken |-> tokenPair.RefreshToken],
                  err |-> NoErr]

\* AuthHandler.LoginUser (the route of the adapter layer): the use case's error
\* or output goes out through common.ResponseApi.
AuthHandlerLoginUser(userModel, password, c, t) ==
    LET out == Login(userModel, password, c, t)
    IN  ResponseApi(out.output, out.err)

\* The names a login request may give: the registered user's and one that has
\* no row.
LoginNames == {UserName(1), "nobody"}

\* POST /v1/auth/login with a name and a password, served by one of the two
\* login handlers.  User 1 registered with pw.password; the digest in the row is
\* the one HashPassword returned, or one that was damaged in storage.
LoginCall(handler, name, password, hashPassword) ==
    /\ pw.pc = "hashed"
    /\ LET userModel == IF name = UserName(1) /\ pw.hashErr = NoErr
                            THEN UserModel(1, hashPassword) ELSE NoUser
           v == VerifyPassword(password, userModel.HashPassword)
       IN  pw' = [pw EXCEPT
                    !.pc = "login", !.handler = handler, !.name = name,
                    !.found = userModel.found,
                    !.attempt = password, !.against = userModel.HashPassword,
                    !.match = userModel.found /\ v.match,
                    !.verifyErr = IF userModel.found THEN v.err ELSE NoErr,
                    !.reply = IF handler = "authHandler"
                                THEN LoginUser(userModel, password, cfg, now)
                                ELSE AuthHandlerLoginUser(userModel, password, cfg, now)]
    /\ UNCHANGED <<authVars, limiterVars>>

\* The keys the comparison of VerifyPassword may be handed: the key decoded
\* from the stored digest and the key derived from the password.
MaxKeyLen == 3

Keys == UNION { [1..n -> {0, 255}] : n \in 0..MaxKeyLen }

\* VerifyPassword, lines 570-575: the comparison of the two keys.
CompareCall(decodedHash, passwordHash) ==
    /\ pw.pc = "idle"
    /\ LET c == ConstantTimeCompareRun(decodedHash, passwordHash)
       IN  pw' = [pw EXCEPT !.pc = "compared",
                            !.decodedHash = decodedHash,
                            !.passwordHash = passwordHash,
                            !.match = c.result = 1,
                            !.steps = c.steps]
    /\ UNCHANGED <<authVars, limiterVars>>

NextCompare == \E x \in Keys, y \in Keys : CompareCall(x, y)

InitPassword ==
    /\ AuthIdle
    /\ LimiterIdle
    /\ pw = IdlePw

NextPassword ==
    \/ \E p \in Passwords, s \in Salts : HashPasswordCall(p, s)
    \/ \E s \in Salts : HashPasswordAgain(s)
    \/ \E p \in Passwords,
          h \in {pw.encodedHash, Respaced(pw.encodedHash), <<>>} :
             pw.second = <<>> /\ VerifyPasswordCall(p, h)
    \/ \E h \in {pw.encodedHash, pw.second} :
             pw.second # <<>> /\ VerifyPasswordCall(pw.password, h)
    \/ \E handler \in {"authHandler", "AuthHandler"}, name \in LoginNames,
          p \in Passwords,
          h \in {pw.encodedHash, Respaced(pw.encodedHash), <<>>} :
             pw.second = <<>> /\ LoginCall(handler, name, p, h)

SpecPassword == InitPassword /\ [][NextPassword]_vars

SpecCompare == InitPassword /\ [][NextCompare]_vars

\* ------------------------------------------------------------ rate limiting
\* The handler both filters return when their tier is disabled: c.Next().
PassHandler(tier) == [NoHandler EXCEPT !.built = TRUE, !.tier = tier]

\* RateLimitFilter: the general tier. The limiter counts in its own memory
\* unless a Redis client is handed in, and then in NewRedisStorage.
RateLimitFilter(rateLimitConfig, redisClient) ==
    IF ~rateLimitConfig.Enabled THEN PassHandler("general")
    ELSE
        [ built |-> TRUE, tier |-> "general", pass |-> FALSE,
          Storage |-> IF redisClient # "nil" THEN "redis" ELSE "memory",
          Max |-> IF rateLimitConfig.Max = 0 THEN 100 ELSE rateLimitConfig.Max,
          Expiration |-> IF rateLimitConfig.Expiration = 0
                            THEN 1 * Minute ELSE rateLimitConfig.Expiration,
          SkipFailedRequests |-> rateLimitConfig.SkipFailedReq,
          SkipSuccessfulRequests |-> rateLimitConfig.SkipSuccessReq,
          error |-> "rate_limit_exceeded", mux |-> 0, memory |-> NoStorage ]

\* AuthRateLimitFilter reading Max where it reads AuthMax.
AuthRateLimitFilterGeneralMax(rateLimitConfig, redisClient) ==
    IF ~rateLimitConfig.AuthEnabled THEN PassHandler("auth")
    ELSE
        [ built |-> TRUE, tier |-> "auth", pass |-> FALSE,
          Storage |-> IF redisClient # "nil" THEN "redis" ELSE "memory",
          Max |-> IF rateLimitConfig.Max = 0 THEN 5 ELSE rateLimitConfig.Max,
          Expiration |-> IF rateLimitConfig.AuthExpiration = 0
                            THEN 1 * Minute ELSE rateLimitConfig.AuthExpiration,
          SkipFailedRequests |-> FALSE,
          SkipSuccessfulRequests |-> FALSE,
          error |-> "auth_rate_limit_exceeded", mux |-> 0, memory |-> NoStorage ]

\* AuthRateLimitFilter: the strict tier of the authentication routes.
AuthRateLimitFilter(rateLimitConfig, redisClient) ==
    IF ~rateLimitConfig.AuthEnabled THEN PassHandler("auth")
    ELSE
        [ built |-> TRUE, tier |-> "auth", pass |-> FALSE,
          Storage |-> IF redisClient # "nil" THEN "redis" ELSE "memory",
          Max |-> IF rateLimitConfig.AuthMax = 0 THEN 5 ELSE rateLimitConfig.AuthMax,
          Expiration |-> IF rateLimitConfig.AuthExpiration = 0
                            THEN 1 * Minute ELSE rateLimitConfig.AuthExpiration,
          SkipFailedRequests |-> FALSE,
          SkipSuccessfulRequests |-> FALSE,
          error |-> "auth_rate_limit_exceeded", mux |-> 0, memory |-> NoStorage ]

\* NewRedisStorage: redis.New with Reset: true empties the database it opens.
NewRedisStorage(db) == NoStorage

\* manager.get of the limiter: the stored item, or an empty one when the key is
\* absent or its TTL has run out.
ManagerGet(db, key, t) ==
    IF key \in DOMAIN db /\ db[key].expireAt > t THEN db[key] ELSE NoItem

\* manager.set of the limiter: store the item under the key for cfg.Expiration.
ManagerSet(db, key, e, expiration, t) ==
    [k \in DOMAIN db \cup {key} |->
        IF k = key THEN [e EXCEPT !.expireAt = t + expiration] ELSE db[k]]

\* Mutant: a hit over the limit pushes the end of the window out.
FixedWindowExtending(h, e, ts) ==
    LET w == IF e.exp = 0 THEN [e EXCEPT !.exp = ts + h.Expiration]
             ELSE IF ts >= e.exp
                THEN [e EXCEPT !.currHits = 0, !.exp = ts + h.Expiration]
             ELSE e
        n == [w EXCEPT !.currHits = w.currHits + 1]
    IN  [e |-> IF h.Max - n.currHits < 0
               THEN [n EXCEPT !.exp = ts + h.Expiration] ELSE n,
         remaining |-> h.Max - n.currHits]

\* The fixed window of limiter.New: a new or elapsed window restarts the count;
\* the hit is counted whether or not it is admitted.
FixedWindow(h, e, ts) ==
    LET w == IF e.exp = 0 THEN [e EXCEPT !.exp = ts + h.Expiration]
             ELSE IF ts >= e.exp
                THEN [e EXCEPT !.currHits = 0, !.exp = ts + h.Expiration]
             ELSE e
        n == [w EXCEPT !.currHits = w.currHits + 1]
    IN  [e |-> n, remaining |-> h.Max - n.currHits]

\* The counter store a handler works on.
StoreOf(l) == IF handlers[l].Storage = "redis" THEN storage ELSE handlers[l].memory

\* The store of handler l becomes db, and its mutex is taken by slot m (0: free).
Stored(l, db, m) ==
    /\ handlers' = [handlers EXCEPT ![l].mux = m,
                        ![l].memory = IF handlers[l].Storage = "redis"
                                        THEN handlers[l].memory ELSE db]
    /\ storage' = IF handlers[l].Storage = "redis" THEN db ELSE storage

\* An instance starts and builds one of the two limiters (InitHttpServer for the
\* general tier, the route setup for the auth tier).  The storage is opened on
\* database rateLimitConfig.RedisDB of the Redis server; `storage` holds the
\* items under client addresses and `redis` the jwt:valid / jwt:blacklist items
\* of database conf.Redis.DB, so that when the two numbers are equal the two
\* variables are the two parts of one database and NewRedisStorage acts on both.
NewLimiter(l, tier, redisClient) ==
    /\ ~handlers[l].built
    /\ LET h == IF tier = "auth"
                    THEN AuthRateLimitFilter(rlConfig, redisClient)
                    ELSE RateLimitFilter(rlConfig, redisClient)
       IN  /\ handlers' = [handlers EXCEPT ![l] = h]
           /\ storage' = IF ~h.pass /\ h.Storage = "redis"
                            THEN NewRedisStorage(storage) ELSE storage
           /\ redis' = IF ~h.pass /\ h.Storage = "redis"
                             /\ rlConfig.RedisDB = cfg.Redis.DB
                          THEN NewRedisStorage(redis) ELSE redis
    /\ UNCHANGED <<now, cfg, issued, req, loggedOut>>
    /\ UNCHANGED <<pw, rlConfig, lreq, hist>>

\* The limiter handler up to its read of the counter: take the mutex, get the
\* item of c.IP(), and count the hit.  The request runs on the first free
\* goroutine.
LimitGet(r, l, ip) ==
    /\ lreq[r].pc = "idle"
    /\ \A q \in LimitSlots : q < r => lreq[q].pc # "idle"
    /\ handlers[l].built
    /\ handlers[l].mux = 0
    /\ Len(hist) < MaxRequests
    /\ IF handlers[l].pass
       THEN /\ lreq' = [lreq EXCEPT ![r] =
                    [IdleLimit EXCEPT !.pc = "next", !.l = l, !.key = ip,
                                      !.admits = <<[l |-> l, admitted |-> TRUE]>>]]
            /\ hist' = Append(hist, [l |-> l, key |-> ip, ts |-> now,
                                     admitted |-> TRUE])
            /\ UNCHANGED handlers
       ELSE LET f == FixedWindow(handlers[l], ManagerGet(StoreOf(l), ip, now), now)
            IN  /\ lreq' = [lreq EXCEPT ![r] =
                        [IdleLimit EXCEPT !.pc = "set", !.l = l, !.key = ip,
                                          !.e = f.e, !.remaining = f.remaining,
                                          !.admits = <<[l |-> l,
                                                admitted |-> ~(f.remaining < 0)]>>]]
                /\ hist' = Append(hist, [l |-> l, key |-> ip, ts |-> now,
                                         admitted |-> ~(f.remaining < 0)])
                /\ handlers' = [handlers EXCEPT ![l].mux = r]
    /\ UNCHANGED <<authVars, pw, rlConfig, storage>>

\* Mutant: the handler answers LimitReached and calls c.Next() all the same.
LimitSetAndNext(r) ==
    /\ lreq[r].pc = "set"
    /\ LET l == lreq[r].l
       IN  /\ Stored(l, ManagerSet(StoreOf(l), lreq[r].key, lreq[r].e,
                                   handlers[l].Expiration, now), 0)
           /\ lreq' = [lreq EXCEPT ![r] =
                  IF lreq[r].remaining < 0
                    THEN [@ EXCEPT !.pc = "next", !.status = StatusTooManyRequests,
                                   !.error = handlers[l].error]
                    ELSE [@ EXCEPT !.pc = "next"]]
    /\ UNCHANGED <<authVars, pw, rlConfig, hist>>

\* The handler writes the item back, releases the mutex, and either answers
\* LimitReached or calls c.Next().
LimitSet(r) ==
    /\ lreq[r].pc = "set"
    /\ LET l == lreq[r].l
       IN  /\ Stored(l, ManagerSet(StoreOf(l), lreq[r].key, lreq[r].e,
                                   handlers[l].Expiration, now), 0)
           /\ lreq' = [lreq EXCEPT ![r] =
                  IF lreq[r].remaining < 0
                    THEN [@ EXCEPT !.pc = "done", !.status = StatusTooManyRequests,
                                   !.error = handlers[l].error]
                    ELSE [@ EXCEPT !.pc = "next"]]
    /\ UNCHANGED <<authVars, pw, rlConfig, hist>>

\* c.Next() returns with the status of the route; a request the configuration
\* says to skip is taken out of the count again.
LimitNext(r, status) ==
    /\ lreq[r].pc = "next"
    /\ LET h == handlers[lreq[r].l]
           skip == \/ h.SkipSuccessfulRequests /\ status < StatusBadRequest
                   \/ h.SkipFailedRequests /\ ~(status < StatusBadRequest)
       IN  lreq' = [lreq EXCEPT ![r] =
              [@ EXCEPT !.pc = IF skip THEN "skip" ELSE "done", !.status = status]]
    /\ UNCHANGED <<authVars, pw, rlConfig, handlers, storage, hist>>

LimitSkipGet(r) ==
    /\ lreq[r].pc = "skip"
    /\ handlers[lreq[r].l].mux = 0
    /\ LET l == lreq[r].l
           e == ManagerGet(StoreOf(l), lreq[r].key, now)
       IN  /\ lreq' = [lreq EXCEPT ![r] =
                  [@ EXCEPT !.pc = "skipset",
                            !.e = [e EXCEPT !.currHits = e.currHits - 1]]]
           /\ handlers' = [handlers EXCEPT ![l].mux = r]
    /\ UNCHANGED <<authVars, pw, rlConfig, storage, hist>>

LimitSkipSet(r) ==
    /\ lreq[r].pc = "skipset"
    /\ LET l == lreq[r].l
       IN  Stored(l, ManagerSet(StoreOf(l), lreq[r].key, lreq[r].e,
                                handlers[l].Expiration, now), 0)
    /\ lreq' = [lreq EXCEPT ![r] = [@ EXCEPT !.pc = "done"]]
    /\ UNCHANGED <<authVars, pw, rlConfig, hist>>

\* The response has left; the goroutine is free for the next request.
LimitDone(r) ==
    /\ lreq[r].pc = "done"
    /\ lreq' = [lreq EXCEPT ![r] = IdleLimit]
    /\ UNCHANGED <<authVars, pw, rlConfig, handlers, storage, hist>>

\* The rate-limit section of the configuration file.
RateLimitConfigs ==
    [ Enabled : BOOLEAN, Max : {MaxTierMax}, Expiration : {0},
      SkipFailedReq : BOOLEAN, SkipSuccessReq : {FALSE},
      AuthEnabled : {TRUE}, AuthMax : 0..(MaxTierMax - 1), AuthExpiration : {0, 1},
      RedisDB : {1} ]

\* One instance, no Redis client: InitHttpServer has built the general tier and
\* the route setup the auth tier, each counting in its own memory.
InitLimiter ==
    /\ AuthIdle
    /\ pw = IdlePw
    /\ rlConfig \in RateLimitConfigs
    /\ handlers = [l \in Limiters |->
                      IF l = 1 THEN RateLimitFilter(rlConfig, "nil")
                               ELSE AuthRateLimitFilter(rlConfig, "nil")]
    /\ storage = NoStorage
    /\ lreq = [r \in LimitSlots |-> IdleLimit]
    /\ hist = <<>>

NextLimiter ==
    \/ \E r \in LimitSlots, l \in Limiters, ip \in ClientIPs : LimitGet(r, l, ip)
    \/ \E r \in LimitSlots : LimitSet(r)
    \/ \E r \in LimitSlots, status \in {StatusOK, StatusUnauthorized} :
          LimitNext(r, status)
    \/ \E r \in LimitSlots : LimitSkipGet(r)
    \/ \E r \in LimitSlots : LimitSkipSet(r)
    \/ \E r \in LimitSlots : LimitDone(r)
    \/ Tick

SpecLimiter == InitLimiter /\ [][NextLimiter]_vars

\* A request to an /auth route: the general tier (app.Use in InitHttpServer) has
\* called c.Next(), and the next handler of the chain is the auth tier of the
\* group (authGroup.Use in SetupUserRoute), on the same goroutine.
LimitChain(r, l) ==
    /\ lreq[r].pc = "next"
    /\ Len(lreq[r].admits) = 1
    /\ handlers[lreq[r].l].tier = "general"
    /\ handlers[l].built
    /\ handlers[l].tier = "auth"
    /\ handlers[l].mux = 0
    /\ Len(hist) < MaxChainRequests
    /\ IF handlers[l].pass
       THEN /\ lreq' = [lreq EXCEPT ![r] =
                    [@ EXCEPT !.l = l,
                              !.admits = Append(@, [l |-> l, admitted |-> TRUE])]]
            /\ hist' = Append(hist, [l |-> l, key |-> lreq[r].key, ts |-> now,
                                     admitted |-> TRUE])
            /\ UNCHANGED handlers
       ELSE LET f == FixedWindow(handlers[l],
                                 ManagerGet(StoreOf(l), lreq[r].key, now), now)
            IN  /\ lreq' = [lreq EXCEPT ![r] =
                        [@ EXCEPT !.pc = "set", !.l = l,
                                  !.e = f.e, !.remaining = f.remaining,
                                  !.admits = Append(@, [l |-> l,
                                                admitted |-> ~(f.remaining < 0)])]]
                /\ hist' = Append(hist, [l |-> l, key |-> lreq[r].key, ts |-> now,
                                         admitted |-> ~(f.remaining < 0)])
                /\ handlers' = [handlers EXCEPT ![l].mux = r]
    /\ UNCHANGED <<authVars, pw, rlConfig, storage>>

\* One instance, both tiers, no skipping: every request meets the general tier
\* first; a request to an /auth route then meets the auth tier, any other goes on
\* to AuthMiddleware and its handler, which answer 200 or 401.
NextChain ==
    \/ \E r \in LimitSlots, ip \in ClientIPs : LimitGet(r, 1, ip)
    \/ \E r \in LimitSlots : LimitSet(r)
    \/ \E r \in LimitSlots, l \in Limiters : LimitChain(r, l)
    \/ \E r \in LimitSlots, status \in {StatusOK, StatusUnauthorized} :
          LimitNext(r, status)
    \/ \E r \in LimitSlots : LimitDone(r)
    \/ Tick

InitChain == InitLimiter /\ ~rlConfig.SkipFailedReq

SpecChain == InitChain /\ [][NextChain]_vars

\* Several instances with a Redis client (UseRedis): each instance builds its
\* limiters when it starts, which may be while the others are serving.
SharedRateLimitConfigs ==
    [ Enabled : {TRUE}, Max : 1..MaxTierMax, Expiration : {0},
      SkipFailedReq : {FALSE}, SkipSuccessReq : {FALSE},
      AuthEnabled : {TRUE}, AuthMax : {1}, AuthExpiration : {1},
      RedisDB : {1} ]

InitSharedLimiter ==
    /\ AuthIdle
    /\ pw = IdlePw
    /\ rlConfig \in SharedRateLimitConfigs
    /\ handlers = [l \in Limiters |-> NoHandler]
    /\ storage = NoStorage
    /\ lreq = [r \in LimitSlots |-> IdleLimit]
    /\ hist = <<>>

NextSharedLimiter ==
    \/ \E l \in Limiters, tier \in {"general", "auth"} : NewLimiter(l, tier, "client")
    \/ \E r \in LimitSlots, l \in Limiters, ip \in ClientIPs : LimitGet(r, l, ip)
    \/ \E r \in LimitSlots : LimitSet(r)
    \/ \E r \in LimitSlots : LimitNext(r, StatusOK)
    \/ \E r \in LimitSlots : LimitDone(r)
    \/ Tick

SpecSharedLimiter == InitSharedLimiter /\ [][NextSharedLimiter]_vars

\* One Redis server behind both the JWT cache (database conf.Redis.DB) and the
\* limiter storage (database rateLimit.RedisDB, 0 when the key is not set): an
\* instance serves authenticated routes and logouts, builds its general limiter
\* and counts requests.
MaxStoreRequests == 1

StoreRateLimitConfigs ==
    [ Enabled : {TRUE}, Max : {MaxTierMax}, Expiration : {0},
      SkipFailedReq : {FALSE}, SkipSuccessReq : {FALSE},
      AuthEnabled : {FALSE}, AuthMax : {0}, AuthExpiration : {0},
      RedisDB : {0, 1} ]

InitStore ==
    /\ now = 0
    /\ cfg = [ AccessTokenSecret |-> "secretA", RefreshTokenSecret |-> "secretB",
               jwtCache |-> NewJWTCache("client", TRUE), Redis |-> [DB |-> 0] ]
    /\ issued = {}
    /\ redis = [k \in {} |-> [val |-> "", expireAt |-> 0]]
    /\ req = [i \in Slots |-> IdleReq]
    /\ loggedOut = {}
    /\ pw = IdlePw
    /\ rlConfig \in StoreRateLimitConfigs
    /\ handlers = [l \in Limiters |-> NoHandler]
    /\ storage = NoStorage
    /\ lreq = [r \in LimitSlots |-> IdleLimit]
    /\ hist = <<>>

\* The requests of this deployment carry an issued access token, or no header.
StoreHeaders ==
    { Header(FALSE, 0, "", NoClaims) }
    \cup { Header(TRUE, 2, Prefix, t) : t \in AccessTokens }

NextStore ==
    \/ \E u \in Users : IssueTokens(u)
    \/ \E i \in AuthSlots, h \in StoreHeaders : AuthBegin(i, h)
    \/ \E i \in Slots : AuthIsBlacklisted(i, TRUE)
    \/ \E i \in Slots : AuthGetCached(i, TRUE)
    \/ \E i \in Slots : AuthValidate(i)
    \/ \E i \in Slots : AuthRemember(i, TRUE)
    \/ \E i \in OpSlots, h \in StoreHeaders : LogoutBegin(i, h)
    \/ \E i \in Slots : LogoutBlacklist(i, TRUE)
    \/ \E i \in Slots : LogoutInvalidate(i, TRUE)
    \/ \E i \in Slots : Finish(i)
    \/ NewLimiter(1, "general", "client")
    \/ \E r \in LimitSlots, ip \in ClientIPs :
          Len(hist) < MaxStoreRequests /\ LimitGet(r, 1, ip)
    \/ \E r \in LimitSlots : LimitSet(r)
    \/ \E r \in LimitSlots : LimitNext(r, StatusOK)
    \/ \E r \in LimitSlots : LimitDone(r)
    \/ Tick

SpecStore == InitStore /\ [][NextStore]_vars

\* ------------------------------------------------------------------ claims
Index(seq, x) == IF \E k \in 1..Len(seq) : seq[k] = x
                 THEN CHOOSE k \in 1..Len(seq) : seq[k] = x ELSE 0
Called(i, name) == Index(req[i].calls, name) > 0
Logged(i, text) == \E l \in req[i].logs : l[1] = text

\* C1: in every AuthMiddleware request the revocation lookup (IsBlacklisted)
\* comes before the validity-cache lookup (GetCachedToken); when the revocation
\* lookup returns true the request is rejected as revoked and neither the cache
\* lookup nor ValidateToken is run, whatever the validity cache holds.
C1_RevocationBeforeCache ==
    \A i \in AuthSlots :
        /\ (cfg.jwtCache.ptr # "nil" /\ req[i].calls # <<>>) =>
              req[i].calls[1] = "IsBlacklisted"
        /\ Called(i, "GetCachedToken") =>
              /\ Called(i, "IsBlacklisted")
              /\ Index(req[i].calls, "IsBlacklisted") < Index(req[i].calls, "GetCachedToken")
        /\ req[i].blResult =>
              /\ req[i].pc = "done"
              /\ req[i].outcome = "revoked"
              /\ ~req[i].next
              /\ ~Called(i, "GetCachedToken")
              /\ ~Called(i, "ValidateToken")

\* A request was rejected as revoked while the validity cache still holds an
\* entry for its token.
C1_Witness ==
    \E i \in AuthSlots :
        /\ req[i].pc = "done"
        /\ req[i].blResult
        /\ Live(redis, ValidKey(Tok(i)), now)

\* C2: with the cache enabled and the store answering, a request whose
\* revocation lookup is made after a successful Logout of its token is rejected:
\* as revoked while the token is unexpired, and never authenticated afterwards.
C2_RejectedAfterLogout ==
    \A i \in AuthSlots :
        (/\ req[i].pc = "done"
         /\ req[i].after
         /\ Active(cfg.jwtCache)
         /\ "IsBlacklisted" \notin req[i].failed)
        => /\ req[i].outcome # "authenticated"
           /\ ~req[i].next
           /\ req[i].blFresh => req[i].outcome = "revoked"

\* A token that was in the validity cache when it was logged out is presented
\* again before its expiry and rejected as revoked.
C2_Witness ==
    \E i \in AuthSlots :
        /\ req[i].pc = "done"
        /\ req[i].afterCached
        /\ req[i].blFresh
        /\ req[i].failed = {}
        /\ req[i].outcome = "revoked"

C4_VerifyAcceptsOwnDigest ==
    ( /\ pw.pc = "verified"
      /\ pw.password # <<>>
      /\ pw.hashErr = NoErr
      /\ pw.attempt = pw.password
      /\ pw.against = pw.encodedHash )
        => (pw.match /\ pw.verifyErr = NoErr)

\* C5 (as claimed): no token minted as a refresh token is accepted by
\* AuthMiddleware as an access token, and no token minted as an access token is
\* accepted by ValidateRefreshToken, whichever secrets are configured.
C5_KindSeparatesTokens ==
    /\ \A i \in AuthSlots :
          req[i].outcome = "authenticated" => Tok(i) \notin RefreshTokens
    /\ \A i \in OpSlots :
          (req[i].op = "refresh" /\ req[i].outcome = "refreshed")
              => Tok(i) \notin AccessTokens

\* The decisions handlers in the set ls took for key ip, in order.
Decisions(ls, ip) ==
    SelectSeq(hist, LAMBDA d : d.l \in ls /\ d.key = ip)

\* A fixed window of length w with at most n admissions, told over a sequence of
\* decisions: the first request opens a window, the first request at or after
\* its end opens the next one, and a request is admitted exactly when it is
\* among the first n of its window.  start and count describe the window so far.
RECURSIVE WindowHolds(_, _, _, _, _)
WindowHolds(ds, n, w, start, count) ==
    IF ds = <<>> THEN TRUE
    ELSE
        LET d     == Head(ds)
            fresh == count = 0 \/ d.ts >= start + w
            c     == IF fresh THEN 1 ELSE count + 1
        IN  /\ d.admitted = (c <= n)
            /\ WindowHolds(Tail(ds), n, w, IF fresh THEN d.ts ELSE start, c)

\* How many requests the window of the last decision in ds has seen.
RECURSIVE WindowCount(_, _, _, _)
WindowCount(ds, w, start, count) ==
    IF ds = <<>> THEN count
    ELSE
        LET d     == Head(ds)
            fresh == count = 0 \/ d.ts >= start + w
        IN  WindowCount(Tail(ds), w, IF fresh THEN d.ts ELSE start,
                        IF fresh THEN 1 ELSE count + 1)

\* The limit and the window the configuration gives a tier.
TierMax(tier) ==
    IF tier = "auth"
        THEN (IF rlConfig.AuthMax = 0 THEN 5 ELSE rlConfig.AuthMax)
        ELSE (IF rlConfig.Max = 0 THEN 100 ELSE rlConfig.Max)

TierWindow(tier) ==
    IF tier = "auth"
        THEN (IF rlConfig.AuthExpiration = 0 THEN Minute ELSE rlConfig.AuthExpiration)
        ELSE (IF rlConfig.Expiration = 0 THEN Minute ELSE rlConfig.Expiration)

\* Handler l limits (its tier is enabled) and counts every request.
Counting(l) ==
    /\ handlers[l].built
    /\ ~handlers[l].pass
    /\ ~handlers[l].SkipFailedRequests
    /\ ~handlers[l].SkipSuccessfulRequests

\* C6 (as claimed): two limiters of one tier that count in the shared Redis
\* store admit, for one key, exactly the first N requests of each window between
\* them, under every interleaving.
C6_SharedStoreAdmitsN ==
    \A l1, l2 \in Limiters, ip \in ClientIPs :
        ( /\ l1 # l2
          /\ Counting(l1) /\ Counting(l2)
          /\ handlers[l1].Storage = "redis" /\ handlers[l2].Storage = "redis"
          /\ handlers[l1].tier = handlers[l2].tier )
            => WindowHolds(Decisions({l1, l2}, ip), TierMax(handlers[l1].tier),
                           TierWindow(handlers[l1].tier), 0, 0)

C8_FailureStatusClass ==
    \A i \in AuthSlots :
        req[i].pc = "done" =>
            /\ req[i].outcome \in {"missing", "malformed"} =>
                  req[i].reply.status = StatusBadRequest
            /\ req[i].outcome \in {"invalid", "revoked"} =>
                  req[i].reply.status = StatusUnauthorized
            /\ req[i].outcome # "authenticated" =>
                  req[i].reply.status \notin 200..299

\* C9: when the store fails on the revocation lookup, IsBlacklisted answers
\* false and logs the error; the request is not rejected as revoked and goes on
\* to the validity-cache lookup and, on a miss, to full validation.
C9_RevocationFailsOpen ==
    \A i \in AuthSlots :
        "IsBlacklisted" \in req[i].failed =>
            /\ ~req[i].blResult
            /\ Logged(i, "Failed to check token blacklist")
            /\ req[i].outcome # "revoked"
            /\ req[i].pc \in {"cache", "validate", "remember", "done"}
            /\ req[i].pc # "cache" => Called(i, "GetCachedToken")
            /\ (req[i].pc = "done" /\ ~Called(i, "ValidateToken")) =>
                  (req[i].outcome = "authenticated" /\ "GetCachedToken" \notin req[i].failed)

\* The revocation lookup failed, the cache missed, and the request was
\* authenticated by full validation.
C9_Witness ==
    \E i \in AuthSlots :
        /\ req[i].pc = "done"
        /\ "IsBlacklisted" \in req[i].failed
        /\ "GetCachedToken" \notin req[i].failed
        /\ Called(i, "ValidateToken")
        /\ req[i].outcome = "authenticated"

\* Every store call the request made failed.
AllStoreCallsFailed(i) ==
    /\ {"IsBlacklisted", "GetCachedToken"} \subseteq req[i].failed
    /\ (Called(i, "CacheValidToken") /\ ~req[i].late) => "CacheValidToken" \in req[i].failed

\* The token is one ValidateToken(token, accessSecret, Prefix) accepts while it
\* is unexpired.
WellSignedAccess(tok) ==
    /\ tok.shape = "jwt"
    /\ tok.alg = "HS256"
    /\ tok.key = cfg.AccessTokenSecret
    /\ tok.TokenType = Prefix

\* C10: when the cache is disabled or absent, or every store call fails, a
\* request with a well-formed header is authenticated exactly when its token is
\* validly signed as an access token and unexpired at validation, and the
\* identity published is the one in the token's claims.
C10_ValidationIsSourceOfTruth ==
    \A i \in AuthSlots :
        (/\ req[i].pc = "done"
         /\ req[i].outcome \notin {"missing", "malformed"}
         /\ (~Active(cfg.jwtCache) \/ AllStoreCallsFailed(i)))
        => /\ req[i].outcome = "authenticated"
                <=> (WellSignedAccess(Tok(i)) /\ req[i].vFresh)
           /\ req[i].outcome = "authenticated" =>
                /\ req[i].next
                /\ req[i].user_id = Tok(i).UserId
                /\ req[i].username = Tok(i).UserName

\* The cache is enabled, all three store calls failed, and the request was
\* authenticated.
C10_Witness ==
    \E i \in AuthSlots :
        /\ req[i].pc = "done"
        /\ Active(cfg.jwtCache)
        /\ req[i].failed = {"IsBlacklisted", "GetCachedToken", "CacheValidToken"}
        /\ req[i].outcome = "authenticated"

\* C11: when the BlacklistToken write fails during a Logout with a valid access
\* token, the logout is still acknowledged to the caller (a 200 reply, not a
\* failure), and the degraded condition is surfaced in the log or the response.
C11_LogoutAcknowledgedOnStoreFailure ==
    \A i \in OpSlots :
        (/\ req[i].op = "logout"
         /\ req[i].pc = "done"
         /\ "BlacklistToken" \in req[i].failed)
        => /\ req[i].reply.status = StatusOK
           /\ req[i].outcome # "logout_failed"
           /\ req[i].logs # {}

\* The Logout request on slot i was refused before the store was reached.
LogoutRefused(i) ==
    /\ req[i].op = "logout"
    /\ req[i].outcome \in {"missing", "malformed", "invalid"}

\* C12: Logout validates the presented token before touching the store, and
\* then calls BlacklistToken followed by InvalidateToken, in that order; a
\* Logout whose header is missing or malformed, or whose token fails validation,
\* answers with an error status and leaves the store (revocation and validity
\* entries) unchanged.
C12_LogoutValidatesThenRevokes ==
    /\ [](\A i \in OpSlots : req[i].op = "logout" =>
            /\ req[i].calls # <<>> => req[i].calls[1] = "ValidateToken"
            /\ Called(i, "BlacklistToken") =>
                  /\ Index(req[i].calls, "BlacklistToken") = 2
                  /\ WellSignedAccess(Tok(i))
                  /\ req[i].vFresh
            /\ Called(i, "InvalidateToken") =>
                  /\ Index(req[i].calls, "InvalidateToken") = 3
                  /\ Called(i, "BlacklistToken")
                  /\ "BlacklistToken" \notin req[i].failed
            /\ LogoutRefused(i) =>
                  /\ req[i].pc = "done"
                  /\ req[i].reply.status \in {StatusBadRequest, StatusUnauthorized}
                  /\ ~Called(i, "BlacklistToken")
                  /\ ~Called(i, "InvalidateToken")
            /\ (req[i].outcome = "invalid") <=>
                  (req[i].pc = "done" /\ Called(i, "ValidateToken")
                   /\ ~(WellSignedAccess(Tok(i)) /\ req[i].vFresh)))
    /\ [][\A i \in OpSlots :
            (req[i].pc = "idle" /\ req'[i].op = "logout") => redis' = redis]_vars

\* With a revocation entry already in the store, a Logout presenting a token
\* that fails validation was refused.
C12_Witness ==
    /\ \E e \in loggedOut : Live(redis, BlacklistKey(e.token), now)
    /\ \E i \in OpSlots :
          /\ req[i].op = "logout"
          /\ req[i].pc = "done"
          /\ req[i].outcome = "invalid"
          /\ req[i].calls = <<"ValidateToken">>

\* The count handler l reads for the client address ip in the current window.
CountOf(l, ip) == ManagerGet(StoreOf(l), ip, now).currHits

\* C13: counters are kept per (tier, client address): when a limiter of one
\* tier writes its count for a client address, the count a limiter of the other
\* tier reads for the same address does not change.
C13_TiersCountApart ==
    [][\A r \in LimitSlots :
          (lreq[r].pc = "set" /\ lreq'[r].pc # "set") =>
              \A l \in Limiters :
                  (/\ handlers[l].built
                   /\ ~handlers[l].pass
                   /\ handlers[l].tier # handlers[lreq[r].l].tier)
                  => CountOf(l, lreq[r].key)' = CountOf(l, lreq[r].key)]_vars

\* C14: starting another limiter instance against the shared store does not
\* reset or lower a counter: over a step that builds a limiter (NewLimiter with
\* NewRedisStorage), the count stored for a client address in the current window
\* does not go down.
C14_ConstructionKeepsCounters ==
    [][\A l \in Limiters :
          (~handlers[l].built /\ handlers'[l].built) =>
              \A ip \in ClientIPs :
                  ManagerGet(storage', ip, now).currHits
                      >= ManagerGet(storage, ip, now).currHits]_vars

\* C15: the limiter's keys and the cache's keys never meet: no step of the rate
\* limiter (the construction of its storage included) creates, overwrites or
\* deletes a validity or revocation entry, and no step of the cache alters a
\* counter.
C15_LimiterAndCacheApart ==
    [][/\ (handlers' # handlers \/ lreq' # lreq) => redis' = redis
       /\ (req' # req) => storage' = storage]_vars

\* The keys of the store that a step has created, changed or removed.
Touched == { k \in DOMAIN redis \cup DOMAIN redis' :
               \/ k \notin DOMAIN redis
               \/ k \notin DOMAIN redis'
               \/ redis[k] # redis'[k] }

\* C16: the cache operations all address the store through the digest of the
\* raw token: every key in the store is a jwt:valid or jwt:blacklist prefix with
\* the sha256 digest of a presented token, never the raw token; a validity entry
\* holds the user id of that token and a revocation entry the sentinel "1"; and
\* a request only ever creates, changes or deletes the validity key and the
\* revocation key of the one token it carries.
C16_KeysAreDigests ==
    /\ [](\A k \in DOMAIN redis :
            /\ k[1] \in {jwtValidKeyPrefix, jwtBlacklistKeyPrefix}
            /\ DOMAIN k[2] = {"sha256"}
            /\ k[2].sha256 \in AccessTokens
            /\ k \in {ValidKey(k[2].sha256), BlacklistKey(k[2].sha256)}
            /\ redis[k].val = IF k[1] = jwtBlacklistKeyPrefix THEN "1"
                              ELSE FormatInt(k[2].sha256.UserId))
    /\ [][\A i \in Slots :
            req'[i] # req[i] =>
                Touched \subseteq {ValidKey(req'[i].tok), BlacklistKey(req'[i].tok)}]_vars

\* A Logout has written the revocation entry of a token whose validity entry is
\* still in the store.
C16_Witness ==
    \E t \in AccessTokens :
        /\ Live(redis, ValidKey(t), now)
        /\ Live(redis, BlacklistKey(t), now)
        /\ redis[ValidKey(t)].val = FormatInt(t.UserId)
        /\ redis[BlacklistKey(t)].val = "1"

\* C17: a token that AuthMiddleware rejects for a bad signature or for a wrong
\* kind gets the very reply an expired token gets (same status, same message);
\* which check failed shows only in the log.
C17_RejectionsIndistinguishable ==
    \A i \in AuthSlots :
        (/\ req[i].op = "auth"
         /\ req[i].pc = "done"
         /\ req[i].outcome = "invalid"
         /\ Tok(i).shape = "jwt")
        => req[i].reply = handleError("ErrTokenExpired").resp

\* The login request did not end with a token pair.
LoginFailed == pw.pc = "login" /\ ~(pw.found /\ pw.match /\ pw.verifyErr = NoErr)

\* What the handler that served the request answers for a name with no row.
UnknownUserReply ==
    IF pw.handler = "authHandler" THEN LoginUser(NoUser, pw.attempt, cfg, now)
    ELSE AuthHandlerLoginUser(NoUser, pw.attempt, cfg, now)

\* C18: a login that fails for a wrong password, or for a stored digest that
\* VerifyPassword cannot parse, gets the very reply a login with an unknown
\* name gets, and carries no token.
C18_LoginFailuresIndistinguishable ==
    LoginFailed =>
        /\ pw.reply = UnknownUserReply
        /\ pw.reply.body.Data = NoData

\* C19: a non-empty password other than the one a digest was made from is not
\* accepted against that digest, and a login with it gets an error reply with
\* no token.
C19_WrongPasswordRejected ==
    (/\ pw.pc \in {"verified", "login"}
     /\ pw.password # <<>>
     /\ pw.hashErr = NoErr
     /\ pw.attempt \notin {<<>>, pw.password}
     /\ pw.against = pw.encodedHash)
    => /\ ~pw.match
       /\ pw.pc = "login" =>
             /\ pw.reply.body.Code = "ERROR"
             /\ pw.reply.body.Data = NoData

\* A registered user's login with another non-empty password was refused.
C19_Witness ==
    /\ pw.pc = "login"
    /\ pw.found
    /\ pw.password # <<>>
    /\ pw.attempt \notin {<<>>, pw.password}
    /\ pw.against = pw.encodedHash
    /\ pw.reply.body.Code = "ERROR"

\* C20: HashPassword gives an error and no digest for the empty password, and a
\* digest and no error otherwise; VerifyPassword gives (false, error) for an
\* empty password, an empty digest and a digest that is not of the form
\* HashPassword writes; and when it gives true, there was no error and the key
\* in the digest equals the key derived from the password.
C20_EmptyAndMalformedRejected ==
    /\ pw.pc # "idle" =>
          IF pw.password = <<>>
            THEN pw.hashErr # NoErr /\ pw.encodedHash = <<>>
            ELSE pw.hashErr = NoErr /\ pw.encodedHash # <<>>
    /\ pw.pc = "verified" =>
          /\ (\/ pw.attempt = <<>>
              \/ pw.against = <<>>
              \/ pw.against # pw.encodedHash)
             => (~pw.match /\ pw.verifyErr # NoErr)
          /\ pw.match =>
                LET scan == Sscanf(pw.against, phcFormat)
                    key  == DecodeString(scan.a[6]).bytes
                IN  /\ pw.verifyErr = NoErr
                    /\ scan.err = NoErr
                    /\ key = IDKey(pw.attempt, DecodeString(scan.a[5]).bytes,
                                   scan.a[3], scan.a[2], scan.a[4], Len(key))

\* VerifyPassword was given a digest whose last separator had become a space,
\* and answered (false, error).
C20_Witness ==
    /\ pw.pc = "verified"
    /\ pw.attempt # <<>>
    /\ pw.against # <<>>
    /\ pw.against = Respaced(pw.encodedHash)
    /\ ~pw.match
    /\ pw.verifyErr # NoErr

\* The states in which AuthMiddleware has returned.
Terminal == {"missing", "malformed", "revoked", "invalid", "authenticated"}

\* C21: every request that enters AuthMiddleware ends, in exactly one terminal
\* state (missing, malformed, revoked, invalid, authenticated) that no later
\* step changes; the downstream handler has run if and only if that state is
\* authenticated, and a request that has not ended or ended in a failure has
\* not reached it.
C21_OneTerminalState ==
    /\ [](\A i \in AuthSlots : req[i].op = "auth" =>
            /\ req[i].pc = "done" <=> req[i].outcome \in Terminal
            /\ req[i].pc # "done" => req[i].outcome = ""
            /\ req[i].next <=> (req[i].pc = "done" /\ req[i].outcome = "authenticated")
            /\ (req[i].pc = "done" /\ req[i].outcome # "authenticated") =>
                  req[i].reply.body.Code = "ERROR")
    /\ [][\A i \in AuthSlots :
             (req[i].op = "auth" /\ req[i].pc = "done") =>
                 req'[i] \in {req[i], IdleReq}]_vars
    /\ \A i \in AuthSlots :
          (req[i].op = "auth" /\ req[i].pc # "done") ~> (req[i].pc = "done")

\* A request passed the revocation lookup, missed the cache, and was refused by
\* ValidateToken without the downstream handler running.
C21_Witness ==
    \E i \in AuthSlots :
        /\ req[i].op = "auth"
        /\ req[i].pc = "done"
        /\ req[i].outcome = "invalid"
        /\ req[i].calls = <<"IsBlacklisted", "GetCachedToken", "ValidateToken">>
        /\ ~req[i].next

\* C22: once AuthUseCase.Logout has returned nil for a valid access token, an
\* AuthMiddleware check of that token that starts afterwards (with the store
\* answering) is rejected.
C22_UseCaseLogoutInvalidates ==
    \A i \in AuthSlots :
        (/\ req[i].op = "auth"
         /\ req[i].pc = "done"
         /\ req[i].after
         /\ req[i].failed = {})
        => req[i].outcome # "authenticated"

\* C23: two HashPassword calls on one password give two digests that differ as
\* strings, and VerifyPassword answers (true, nil) for that password against
\* either of them.
C23_TwoDigestsBothVerify ==
    /\ (pw.second # <<>>) => pw.second # pw.encodedHash
    /\ (/\ pw.pc = "verified"
        /\ pw.second # <<>>
        /\ pw.attempt = pw.password
        /\ pw.against \in {pw.encodedHash, pw.second})
       => (pw.match /\ pw.verifyErr = NoErr)

C25_LookupAfterWriteIsRejected ==
    \A i \in AuthSlots :
        (/\ req[i].op = "auth"
         /\ req[i].pc = "done"
         /\ Active(cfg.jwtCache)
         /\ "IsBlacklisted" \notin req[i].failed)
        => /\ req[i].afterWrite =>
                /\ req[i].outcome # "authenticated"
                /\ ~req[i].next
                /\ req[i].blFresh => req[i].outcome = "revoked"
           /\ (req[i].outcome = "authenticated" /\ WriteDone(Tok(i))) =>
                (Called(i, "IsBlacklisted") /\ ~req[i].afterWrite)

\* The race the claim allows: a request looked the token up before the Logout
\* wrote the revocation entry and was authenticated after the write.
C25_Witness ==
    \E i \in AuthSlots :
        /\ req[i].op = "auth"
        /\ req[i].pc = "done"
        /\ req[i].failed = {}
        /\ req[i].outcome = "authenticated"
        /\ ~req[i].afterWrite
        /\ WriteDone(Tok(i))
        /\ Live(redis, BlacklistKey(Tok(i)), now)

\* C26: once a Logout of a token has answered "Logged out successfully" with no
\* store error and every request carrying that token has finished, the validity
\* namespace holds no entry for the token.
C26_NoValidityEntryAfterLogout ==
    \A j \in OpSlots :
        (/\ req[j].op = "logout"
         /\ req[j].pc = "done"
         /\ req[j].outcome = "logged_out"
         /\ req[j].failed = {}
         /\ \A i \in AuthSlots :
                (req[i].op = "auth" /\ req[i].tok = req[j].tok)
                => (req[i].pc = "done" /\ req[i].failed = {}))
        => ~Live(redis, ValidKey(req[j].tok), now)

\* ---------------------------------------------------------------- handlers behind AuthMiddleware
\* GetUserNameFromContext: c.Locals("username"); the local is nil when the
\* middleware did not set it (the request's username field is then "").
GetUserNameFromContext(r) ==
    IF r.username = ""
    THEN [userName |-> "", err |-> "user not found in context"]
    ELSE [userName |-> r.username, err |-> NoErr]

\* UserHandler.Profile: the profile of the published username, or the error of
\* GetUserNameFromContext answered through common.ResponseApi.
UserHandlerProfile(r) ==
    LET u == GetUserNameFromContext(r) IN
    IF u.err # NoErr
    THEN [profileOf |-> "", Msg |-> u.err]
    ELSE [profileOf |-> u.userName, Msg |-> ""]

\* What AuthMiddleware publishes after a full validation of a token (lines
\* 326-328): the claims, the user id and the username.
Published(r) == [user |-> r.claims, user_id |-> r.user_id, username |-> r.username]

ValidatedIdentity(token) ==
    [user |-> token, user_id |-> token.UserId, username |-> token.UserName]

\* C27: an authenticated request publishes the identity full validation of its
\* token publishes, whether it was served from the validity cache or validated,
\* and the profile handler answers alike in both cases.
C27_CacheHitPublishesSameIdentity ==
    \A i \in AuthSlots :
        (/\ req[i].op = "auth"
         /\ req[i].pc = "done"
         /\ req[i].outcome = "authenticated"
         /\ req[i].failed = {})
        => /\ Published(req[i]) = ValidatedIdentity(Tok(i))
           /\ UserHandlerProfile(req[i]) =
                [profileOf |-> Tok(i).UserName, Msg |-> ""]

\* The header is absent, or does not split into exactly two parts of which the
\* first is the Bearer scheme in any case.
BadHeader(h) == ~h.set \/ h.n # 2 \/ ~EqualFold(h.scheme, Prefix)

\* C28: a request with an absent or malformed Authorization header ends in the
\* same step with the missing or the malformed error; it has made no store call
\* and no signature verification, the store is untouched and the next handler
\* is not called.
C28_BadHeaderEndsBeforeAnyCall ==
    /\ [](\A i \in AuthSlots :
            (req[i].op = "auth" /\ req[i].outcome \in {"missing", "malformed"})
            => /\ req[i].pc = "done"
               /\ req[i].calls = <<>>
               /\ ~req[i].next)
    /\ [][\A i \in AuthSlots, h \in Headers :
            (AuthBegin(i, h) /\ BadHeader(h))
            => /\ req'[i].pc = "done"
               /\ req'[i].outcome = IF h.set THEN "malformed" ELSE "missing"
               /\ req'[i].reply = handleError(IF h.set THEN "ErrMalformedToken"
                                                       ELSE "ErrMissingToken").resp
               /\ req'[i].calls = <<>>
               /\ redis' = redis]_vars

\* A request refused for a malformed header while a store and an issued token
\* exist (a lookup or a verification would have been possible).
C28_Witness ==
    \E i \in AuthSlots :
        /\ req[i].op = "auth"
        /\ req[i].pc = "done"
        /\ req[i].outcome = "malformed"
        /\ req[i].calls = <<>>
        /\ Active(cfg.jwtCache)
        /\ issued # {}

\* C29: a request served from the validity cache is authenticated in the lookup
\* step itself: ValidateToken is not called, the store is not written, and the
\* published user id is the one a full validation of the token yields at that
\* moment.
C29_CacheHitSkipsValidation ==
    [][\A i \in AuthSlots, ok \in BOOLEAN :
         (/\ AuthGetCached(i, ok)
          /\ req[i].op = "auth"
          /\ GetCachedToken(cfg.jwtCache, redis, Tok(i), now, ok).found)
         => /\ req'[i].pc = "done"
            /\ req'[i].outcome = "authenticated"
            /\ req'[i].next
            /\ req'[i].calls = <<"IsBlacklisted", "GetCachedToken">>
            /\ redis' = redis
            /\ LET v == ValidateToken(Tok(i), cfg.AccessTokenSecret, Prefix, now) IN
               /\ v.err = NoErr
               /\ req'[i].user_id = v.claims.UserId
               /\ req'[i].claims.UserId = v.claims.UserId]_vars

\* A repeated request answered from the cache with the token owner's id.
C29_Witness ==
    \E i \in AuthSlots :
        /\ req[i].op = "auth"
        /\ req[i].pc = "done"
        /\ req[i].outcome = "authenticated"
        /\ req[i].calls = <<"IsBlacklisted", "GetCachedToken">>
        /\ req[i].failed = {}
        /\ req[i].user_id = Tok(i).UserId
        /\ Tok(i).UserId \in Users

\* The validity entries of the store and the token each one is keyed by.
ValidityKeys(db) == {k \in DOMAIN db : k[1] = jwtValidKeyPrefix}
TokenOf(k) == k[2].sha256

\* C30: every validity entry is keyed by the digest of a token that passes
\* ValidateToken for as long as the entry lives and holds that token's user id;
\* an entry is written only by a request that validated that token, with the
\* user id of its validated claims; concurrent requests holding the same
\* validated token are about to write the same value.
C30_ValidityEntriesAreValidated ==
    /\ [](\A k \in ValidityKeys(redis) :
            /\ redis[k].val = FormatInt(TokenOf(k).UserId)
            /\ redis[k].expireAt <= TokenOf(k).ExpiresAt
            /\ now < redis[k].expireAt =>
                 ValidateToken(TokenOf(k), cfg.AccessTokenSecret, Prefix, now).err = NoErr)
    /\ [](\A i, j \in Slots :
            (/\ req[i].pc = "remember" /\ req[j].pc = "remember"
             /\ req[i].op = "auth" /\ req[j].op = "auth"
             /\ Tok(i) = Tok(j))
            => FormatInt(req[i].claims.UserId) = FormatInt(req[j].claims.UserId))
    /\ [][\A k \in ValidityKeys(redis') :
            (k \notin DOMAIN redis \/ redis'[k] # redis[k])
            => \E i \in Slots :
                 /\ req[i].op = "auth"
                 /\ req[i].pc = "remember"
                 /\ req'[i].pc = "done"
                 /\ Tok(i) = TokenOf(k)
                 /\ req[i].calls = <<"IsBlacklisted", "GetCachedToken", "ValidateToken">>
                 /\ req[i].claims = Tok(i)
                 /\ redis'[k].val = FormatInt(req[i].claims.UserId)]_vars

\* Two overlapping cache-miss requests for one token have both validated it and
\* both written the validity entry, which holds the owner's id.
C30_Witness ==
    \E i, j \in Slots :
        /\ i # j
        /\ req[i].op = "auth" /\ req[j].op = "auth"
        /\ Tok(i) = Tok(j)
        /\ \A r \in {i, j} :
              /\ req[r].pc = "done"
              /\ req[r].failed = {}
              /\ req[r].calls = <<"IsBlacklisted", "GetCachedToken",
                                  "ValidateToken", "CacheValidToken">>
        /\ Live(redis, ValidKey(Tok(i)), now)
        /\ redis[ValidKey(Tok(i))].val = FormatInt(Tok(i).UserId)

\* The store after one entry was set under key and nothing else was touched.
OnlySet(db, db2, key, val, expireAt) ==
    /\ DOMAIN db2 = DOMAIN db \cup {key}
    /\ db2[key] = [val |-> val, expireAt |-> expireAt]
    /\ \A k \in DOMAIN db \ {key} : db2[k] = db[k]

\* C31: BlacklistToken and CacheValidToken called for a token that has already
\* expired return nil and leave the store as it is; called before the expiry, on
\* a working cache, they set exactly the entry under the token's digest in their
\* own namespace, to live for the token's remaining lifetime, and touch no other
\* key.
C31_WritesOneEntryOrNone ==
    [][\A i \in Slots, ok \in BOOLEAN :
         LET e == req[i].claims.ExpiresAt IN
         /\ LogoutBlacklist(i, ok) =>
              /\ e <= now =>
                   /\ redis' = redis
                   /\ "BlacklistToken" \notin req'[i].failed
                   /\ req'[i].pc = "invalidate"
              /\ (e > now /\ Active(cfg.jwtCache) /\ ok) =>
                   /\ OnlySet(redis, redis', BlacklistKey(Tok(i)), "1", now + (e - now))
                   /\ "BlacklistToken" \notin req'[i].failed
         /\ AuthRemember(i, ok) =>
              /\ e <= now =>
                   /\ redis' = redis
                   /\ "CacheValidToken" \notin req'[i].failed
              /\ (e > now /\ Active(cfg.jwtCache) /\ ok) =>
                   /\ OnlySet(redis, redis', ValidKey(Tok(i)),
                              FormatInt(req[i].claims.UserId), now + (e - now))
                   /\ "CacheValidToken" \notin req'[i].failed]_vars

\* A request cached its token part way through the token's life, and a Logout
\* reached BlacklistToken only after the token had expired and went on.
C31_Witness ==
    \E i \in AuthSlots, j \in OpSlots :
        /\ req[i].op = "auth" /\ req[i].pc = "done"
        /\ Called(i, "CacheValidToken") /\ req[i].failed = {} /\ ~req[i].late
        /\ Active(cfg.jwtCache)
        /\ req[j].op = "logout" /\ req[j].late
        /\ Called(j, "BlacklistToken") /\ req[j].failed = {}
        /\ ~Live(redis, BlacklistKey(Tok(j)), now)

\* C32: a Logout that answered "Logged out successfully" for a token that has
\* not expired has that token in the revocation namespace, whatever JWTCache
\* the handler was built with.
C32_LoggedOutMeansRevoked ==
    \A j \in OpSlots :
        (/\ req[j].op = "logout"
         /\ req[j].pc = "done"
         /\ req[j].outcome = "logged_out"
         /\ req[j].reply = JSONReply(StatusOK, "", "Logged out successfully")
         /\ ~req[j].late
         /\ now < Tok(j).ExpiresAt)
        => Live(redis, BlacklistKey(Tok(j)), now)

\* C33: a minted token carries the minting time as issued-at and not-before and
\* that time plus its lifetime as expiry; ValidateToken accepts an access token
\* signed with the configured secret from its issue up to, not including, its
\* expiry, and answers the expired error from the expiry on; a token signed with
\* another secret or with a non-HMAC algorithm is refused at every time.
C33_TokenLifetime ==
    /\ [][\A u \in Users : IssueTokens(u) =>
            \A p \in issued' \ issued :
               /\ p.AccessToken.IssuedAt = now /\ p.AccessToken.NotBefore = now
               /\ p.AccessToken.ExpiresAt = now + AccessTokenExp
               /\ p.RefreshToken.IssuedAt = now /\ p.RefreshToken.NotBefore = now
               /\ p.RefreshToken.ExpiresAt = now + RefreshTokenExp]_vars
    /\ [](\A t \in AccessTokens :
            LET v == ValidateToken(t, cfg.AccessTokenSecret, Prefix, now) IN
            /\ t.IssuedAt <= now
            /\ now < t.ExpiresAt => (v.err = NoErr /\ v.claims = t)
            /\ now >= t.ExpiresAt => v.err = "ErrTokenExpired")
    /\ [](\A t \in Presentable :
            (t.alg # "HS256" \/ t.key # cfg.AccessTokenSecret)
            => ValidateToken(t, cfg.AccessTokenSecret, Prefix, now).err
                  \notin {NoErr, "ErrTokenExpired"})
    /\ [][\A i \in AuthSlots :
            (AuthValidate(i) /\ Tok(i) \in AccessTokens) =>
               IF now < Tok(i).ExpiresAt
               THEN req'[i].outcome = "authenticated" /\ req'[i].claims = Tok(i)
               ELSE /\ req'[i].outcome = "invalid"
                    /\ req'[i].reply = handleError("ErrTokenExpired").resp]_vars

\* An issued access token was presented at or after its expiry and refused as
\* expired.
C33_Witness ==
    \E i \in AuthSlots :
        /\ req[i].op = "auth" /\ req[i].pc = "done"
        /\ Tok(i) \in AccessTokens
        /\ ~req[i].vFresh
        /\ req[i].outcome = "invalid"
        /\ req[i].reply = handleError("ErrTokenExpired").resp

\* The header carries the token as the refresh route strips it: bare, or behind
\* "Bearer ".
Strippable(h) == h.set /\ ((h.n = 2 /\ h.scheme = Prefix) \/ (h.n = 1 /\ h.scheme = ""))

\* C34: the refresh route answers an unexpired refresh token of an issued pair
\* with an access token minted at that moment and the very refresh token it was
\* given; an expired, malformed or wrongly signed token gets an error and no
\* token is minted; the store is not touched.
C34_RefreshKeepsRefreshToken ==
    [][\A i \in OpSlots, h \in RefreshHeaders :
         RefreshToken(i, h) =>
           LET tok == TrimPrefix(h) IN
           /\ redis' = redis
           /\ req'[i].calls \in {<<>>, <<"ValidateToken">>}
           /\ (Strippable(h) /\ tok \in RefreshTokens /\ now < tok.ExpiresAt) =>
                LET a == generateToken(tok.UserId, tok.UserName, Prefix,
                                       cfg.AccessTokenSecret, AccessTokenExp, now) IN
                /\ req'[i].outcome = "refreshed"
                /\ req'[i].reply.body.Data.RefreshToken = tok
                /\ req'[i].reply.body.Data.AccessToken = a
                /\ a \in {p.AccessToken : p \in issued'}
                /\ ValidateToken(a, cfg.AccessTokenSecret, Prefix, now).err = NoErr
           /\ (h.set /\ (\/ tok.shape # "jwt"
                         \/ tok.alg # "HS256"
                         \/ tok.key # cfg.RefreshTokenSecret
                         \/ now >= tok.ExpiresAt)) =>
                /\ req'[i].outcome = "invalid"
                /\ req'[i].reply.body.Data = NoData
                /\ issued' = issued]_vars

\* A refresh answered with an access token minted later than the pair the
\* refresh token came from.
C34_Witness ==
    \E i \in OpSlots :
        /\ req[i].op = "refresh" /\ req[i].pc = "done"
        /\ req[i].outcome = "refreshed"
        /\ Tok(i) \in RefreshTokens
        /\ req[i].reply.body.Data.RefreshToken = Tok(i)
        /\ req[i].reply.body.Data.AccessToken.IssuedAt > Tok(i).IssuedAt
        /\ cfg.AccessTokenSecret # cfg.RefreshTokenSecret

\* The last tier a request met turned it away.
Rejected(r) ==
    lreq[r].admits # <<>> /\ ~lreq[r].admits[Len(lreq[r].admits)].admitted

\* C35: a request a tier turns away is answered 429 with that tier's error code
\* (rate_limit_exceeded for the general tier, auth_rate_limit_exceeded for the
\* auth tier) and goes no further down the chain; a request that got past the
\* tiers was admitted by each tier it met, and a request to an /auth route that
\* reached its handler was admitted by both.
C35_RejectedStopsAtTier ==
    /\ [](\A r \in LimitSlots :
            /\ Rejected(r) =>
                 /\ lreq[r].pc \in {"set", "done"}
                 /\ lreq[r].pc = "done" =>
                      /\ lreq[r].status = StatusTooManyRequests
                      /\ lreq[r].error =
                           IF handlers[lreq[r].l].tier = "general"
                           THEN "rate_limit_exceeded" ELSE "auth_rate_limit_exceeded"
            /\ lreq[r].status = StatusTooManyRequests => Rejected(r)
            /\ lreq[r].status \in {StatusOK, StatusUnauthorized} =>
                 \A n \in 1..Len(lreq[r].admits) : lreq[r].admits[n].admitted
            /\ (Len(lreq[r].admits) = 2 /\ lreq[r].pc \in {"next", "done"}) =>
                 /\ handlers[lreq[r].admits[1].l].tier = "general"
                 /\ handlers[lreq[r].admits[2].l].tier = "auth"
                 /\ lreq[r].admits[1].admitted)
    /\ [][\A r \in LimitSlots :
            /\ (lreq[r].pc = "set" /\ lreq[r].remaining < 0 /\ lreq'[r] # lreq[r]) =>
                 (lreq'[r].pc = "done" /\ lreq'[r].status = StatusTooManyRequests)
            /\ (Rejected(r) /\ lreq[r].pc = "done" /\ lreq'[r] # lreq[r]) =>
                 lreq'[r] = IdleLimit]_vars

\* Both tiers count, the general tier let a request to an /auth route through
\* and the auth tier answered it 429 with its own code.
C35_Witness ==
    \E r \in LimitSlots :
        /\ lreq[r].pc = "done"
        /\ Len(lreq[r].admits) = 2
        /\ lreq[r].admits[1].admitted
        /\ ~handlers[lreq[r].admits[1].l].pass
        /\ ~lreq[r].admits[2].admitted
        /\ lreq[r].status = StatusTooManyRequests
        /\ lreq[r].error = "auth_rate_limit_exceeded"

\* C36: the end of a window is fixed by the request that opened it: a hit inside
\* an open window, admitted or turned away, leaves the end where it was; the
\* first hit at or after the end is admitted and opens the next window; and the
\* end every stored counter carries is the arrival time of an admitted request
\* plus the tier's expiration.
C36_RejectedHitKeepsWindow ==
    /\ [][\A r \in LimitSlots, l \in Limiters, ip \in ClientIPs :
            (LimitGet(r, l, ip) /\ ~handlers[l].pass) =>
               LET e0 == ManagerGet(StoreOf(l), ip, now) IN
               /\ (e0.exp # 0 /\ now < e0.exp) => lreq'[r].e.exp = e0.exp
               /\ (e0.exp # 0 /\ now >= e0.exp) =>
                    /\ lreq'[r].e.exp = now + handlers[l].Expiration
                    /\ lreq'[r].e.currHits = 1
                    /\ lreq'[r].remaining >= 0
                    /\ hist'[Len(hist')].admitted]_vars
    /\ [][\A r \in LimitSlots :
            LimitSet(r) =>
               LET l == lreq[r].l IN
               /\ StoreOf(l)'[lreq[r].key].exp = lreq[r].e.exp
               /\ (lreq[r].remaining < 0 /\ lreq[r].key \in DOMAIN StoreOf(l)
                     /\ StoreOf(l)[lreq[r].key].exp # 0) =>
                    StoreOf(l)'[lreq[r].key].exp = StoreOf(l)[lreq[r].key].exp]_vars
    /\ [](\A l \in Limiters : \A k \in DOMAIN StoreOf(l) :
            StoreOf(l)[k].exp # 0 =>
               \E n \in 1..Len(hist) :
                  /\ hist[n].l = l /\ hist[n].key = k /\ hist[n].admitted
                  /\ hist[n].ts + handlers[l].Expiration = StoreOf(l)[k].exp)

\* A hit was admitted, the next one in the same window was turned away, and the
\* first one at the end of that window was admitted.
C36_Witness ==
    /\ Len(hist) = 3
    /\ hist[1].l = hist[2].l /\ hist[2].l = hist[3].l
    /\ hist[1].admitted /\ ~hist[2].admitted /\ hist[3].admitted
    /\ hist[2].ts < hist[1].ts + handlers[hist[1].l].Expiration
    /\ hist[3].ts >= hist[1].ts + handlers[hist[1].l].Expiration
    /\ \A r \in LimitSlots : lreq[r].pc \in {"idle", "done"}

\* C37: a write to the validity or the revocation namespace never lands on a key
\* whose entry is still there: BlacklistToken and CacheValidToken issue their SET
\* only when the token's digest has no live entry in their namespace.
C37_NoWriteOverLiveEntry ==
    [][\A i \in Slots :
         /\ (/\ AuthRemember(i, TRUE)
             /\ Active(cfg.jwtCache)
             /\ req[i].claims.ExpiresAt > now)
            => ~Live(redis, ValidKey(Tok(i)), now)
         /\ (/\ LogoutBlacklist(i, TRUE)
             /\ Active(cfg.jwtCache)
             /\ req[i].claims.ExpiresAt > now)
            => ~Live(redis, BlacklistKey(Tok(i)), now)]_vars

\* C38: the store calls of a Logout change nothing but the revocation entry and
\* the validity entry of the token it was given, and the refresh route, given the
\* refresh token of an issued pair, answers with an access token that
\* AuthMiddleware accepts at that moment (not revoked, valid), whether or not
\* the pair's access token has been logged out.
C38_LogoutTouchesOneToken ==
    /\ [][\A i \in OpSlots, ok \in BOOLEAN :
            (LogoutBlacklist(i, ok) \/ LogoutInvalidate(i, ok)) =>
               \A k \in (DOMAIN redis \cup DOMAIN redis')
                         \ {BlacklistKey(Tok(i)), ValidKey(Tok(i))} :
                  k \in DOMAIN redis /\ k \in DOMAIN redis' /\ redis'[k] = redis[k]]_vars
    /\ [][\A i \in OpSlots, h \in ConcurrentHeaders :
            (RefreshToken(i, h) /\ TrimPrefix(h) \in RefreshTokens
               /\ now < TrimPrefix(h).ExpiresAt) =>
               LET a == req'[i].reply.body.Data.AccessToken IN
               /\ req'[i].outcome = "refreshed"
               /\ ValidateToken(a, cfg.AccessTokenSecret, Prefix, now).err = NoErr
               /\ ~IsBlacklisted(cfg.jwtCache, redis', a, now, TRUE).result]_vars

\* C39: the middleware-level refresh handler, given "Bearer <token>" in the
\* Authorization header with an unexpired refresh token of an issued pair,
\* answers 200 with a pair minted at that moment for the token's user.
C39_MiddlewareRefreshIssuesPair ==
    [][\A i \in OpSlots, tok \in RefreshTokens :
         (AuthenHandlerRefreshToken(i, Header(TRUE, 2, Prefix, tok))
            /\ now < tok.ExpiresAt) =>
           /\ req'[i].outcome = "refreshed"
           /\ req'[i].reply.status = StatusOK
           /\ req'[i].reply.body.Data =
                [AccessToken  |-> GenerateTokenPair(cfg, tok.UserId, tok.UserName, now).AccessToken,
                 RefreshToken |-> GenerateTokenPair(cfg, tok.UserId, tok.UserName, now).RefreshToken]]_vars

====
